---- MODULE Spec2Model ----
(***************************************************************************)
(* Model of the foundry broadcaster (src/src) and of the offline           *)
(* foundry-player (src/foundry-player/src): one WebSocket session with its *)
(* outbound drainer, its inbound/producer task, the frame source with its  *)
(* capacity-1 listener queues, and the paced MP4 player.                   *)
(***************************************************************************)
EXTENDS Integers, Sequences, FiniteSets, TLC

\* ------------------------------------------------------------------------
\* Bounds of the model
\* ------------------------------------------------------------------------
\* capacity of the outbound channel (stands for OUTBOUND_BUFFER, scaled down)
OutboundCap == 2
\* frames the capture source produces in one run
MaxFrames == 2
\* listeners of the frame source (sessions attached to one Recorder)
NumListeners == 2

\* bytes of a unit of the encoder's bitstream, units of a bitstream, samples
\* of an audio chunk
MaxNalLen == 3

MaxNals == 2

MaxSamples == 2

\* the small pixel budget and the largest width and height tried against it
PixelBudget == 4

MaxDim == 6

\* the mixer at reduced widths: samples lie in -(SampleMax + 1) .. SampleMax
\* where the code has i16, accumulators in -(AccMax + 1) .. AccMax where it
\* has i32; the buckets take at most MaxContrib contributions between them
\* and the clock is advanced at most MaxTicks times
SampleMax == 1

MaxContrib == 6

MaxTicks == 2

MaxQuanta == 3

\* samples of the video track of a file read on its own
MaxTrack == 3

CHUNK_MS == 100

MAX_BUCKET_AGE_MS == 2000

\* ------------------------------------------------------------------------
\* Program constants
\* ------------------------------------------------------------------------
MAX_PIXELS == 1920 * 1080

\* capacity of a listener queue: tokio::sync::mpsc::channel(1)
LISTENER_CAPACITY == 1

\* ------------------------------------------------------------------------
\* Helpers
\* ------------------------------------------------------------------------
Min(a, b) == IF a < b THEN a ELSE b

Max(a, b) == IF a > b THEN a ELSE b

Last(s) == s[Len(s)]

\* ------------------------------------------------------------------------
\* Wire messages (axum Message): text JSON control, binary media, ping,
\* pong, close.  One record shape for all of them.
\* ------------------------------------------------------------------------
Blank ==
  [t |-> "none", codec |-> "", reason |-> "", desc |-> <<>>, w |-> 0, h |-> 0,
   id |-> 0, idr |-> FALSE, lo |-> 0, hi |-> 0]

\* {"type":"mode-ack","mode":"video","codec":<codec>}
ModeAck(codec) == [Blank EXCEPT !.t = "mode-ack", !.codec = codec]

\* {"type":"mode-ack","mode":"video","reason":"video-unavailable"}
ModeAckUnavailable == [Blank EXCEPT !.t = "mode-ack", !.reason = "video-unavailable"]

\* {"type":"video-config","config":{codec, description, width, height}}
VideoConfigMsg(codec, desc, w, h) ==
  [Blank EXCEPT !.t = "video-config", !.codec = codec, !.desc = desc, !.w = w, !.h = h]

\* binary video message: the AVCC chunk of frame `id', with an IDR slice or not
VideoBinary(id, idr) == [Blank EXCEPT !.t = "video", !.id = id, !.idr = idr]

\* binary AUD0 message carrying the samples lo .. hi-1 of the audio source
AudioBinary(lo, hi) == [Blank EXCEPT !.t = "audio", !.lo = lo, !.hi = hi]

Heartbeat == [Blank EXCEPT !.t = "heartbeat"]

Pong == [Blank EXCEPT !.t = "pong"]

CloseMsg == [Blank EXCEPT !.t = "close"]

IsBinary(m) == m.t \in {"video", "audio"}

\* what a transcript keeps of a message: its kind and, for a mode-ack, the
\* codec or the reason it carries
Tag(m) == [t |-> m.t, codec |-> IF m.t = "mode-ack" THEN m.codec ELSE "",
           reason |-> m.reason]

\* number of entries of a transcript that equal e
Count(s, e) == Cardinality({ i \in 1 .. Len(s) : s[i] = e })

\* a control text whose repetition a transcript shows
IsControl(m) == m.t \in {"mode-ack", "video-config"}

\* the messages the producer streams; pong and close frames belong to the
\* WebSocket layer
IsStreaming(m) == m.t \in {"mode-ack", "video-config", "video", "audio"}

\* A transcript is the sequence of the streaming messages with the
\* repetitions left out: it keeps the first message of each tag, and the
\* second one of a control text.
Log(s, m) ==
  LET seen == Count(s, Tag(m))
  IN  IF IsStreaming(m) /\ (seen = 0 \/ (seen = 1 /\ IsControl(m)))
        THEN Append(s, Tag(m)) ELSE s

\* the kinds of streaming message the peer has been sent, after one more
Written(kinds, m) == IF IsStreaming(m) THEN kinds \cup {m.t} ELSE kinds

\* ------------------------------------------------------------------------
\* Messages of the client, as the handlers look at them
\* ------------------------------------------------------------------------
\* A text is a JSON document or not; a document has a "type" member that is
\* a string or is absent, and a "codec" member that is a string, absent, or
\* not a string.  A binary has the AUD0 magic or not, a byte length and a
\* sample_count header field.
ClientBlank ==
  [k |-> "none", json |-> FALSE, type |-> "absent", codec |-> "absent",
   magic |-> FALSE, len |-> 0, count |-> 0]

Text(json, type, codec) ==
  [ClientBlank EXCEPT !.k = "text", !.json = json, !.type = type, !.codec = codec]

Binary(magic, len, count) ==
  [ClientBlank EXCEPT !.k = "binary", !.magic = magic, !.len = len, !.count = count]

ClientTexts ==
  { Text(FALSE, "absent", "absent"),
    Text(TRUE, "absent", "avc"),
    Text(TRUE, "mode", "avc"),
    Text(TRUE, "mode", "hevc"),
    Text(TRUE, "mode", "vp9"),
    Text(TRUE, "mode", "absent"),
    Text(TRUE, "mode", "nonstring"),
    Text(TRUE, "force-keyframe", "absent"),
    Text(TRUE, "stats", "hevc") }

ClientBinaries ==
  { Binary(TRUE, 28, 2), Binary(TRUE, 26, 2), Binary(TRUE, 20, 0), Binary(FALSE, 28, 2) }

ClientMsgs ==
  ClientTexts \cup ClientBinaries
    \cup { [ClientBlank EXCEPT !.k = "ping"], [ClientBlank EXCEPT !.k = "pong"],
           [ClientBlank EXCEPT !.k = "close"] }

\* what receiver.next() can yield besides a message: the end of the stream
\* and a transport error
StreamEnds == { [ClientBlank EXCEPT !.k = "end"], [ClientBlank EXCEPT !.k = "error"] }

\* the 500 ms timeout of the negotiation expiring
Timeout == [ClientBlank EXCEPT !.k = "timeout"]

\* serde_json::from_str::<ModeRequest>: a JSON object with a string "type"
\* and a "codec" that is a string or absent
ParsesAsModeRequest(m) ==
  m.k = "text" /\ m.json /\ m.type # "absent" /\ m.codec # "nonstring"

\* negotiate_mode without the check of the "type" member
NegotiatedCodec_AnyType(m) ==
  IF m.k = "text" /\ m.json /\ m.codec = "hevc" THEN "hevc" ELSE "avc"

\* the codec negotiate_mode selects for the first thing the receiver yields
NegotiatedCodec(m) ==
  IF ParsesAsModeRequest(m) /\ m.type = "mode" /\ m.codec = "hevc" THEN "hevc" ELSE "avc"

\* parse_audio_chunk returns Some
ParsesAsAudio(m) ==
  m.k = "binary" /\ m.magic /\ m.len >= 24 /\ m.len >= 24 + 2 * m.count

\* ------------------------------------------------------------------------
\* Downsampler: the dimensions and scale of the frame downsample returns
\* ------------------------------------------------------------------------
RECURSIVE SqrtCeilFrom(_, _)
SqrtCeilFrom(n, r) == IF r * r >= n THEN r ELSE SqrtCeilFrom(n, r + 1)

\* (ratio as f64).sqrt().ceil()
SqrtCeil(n) == SqrtCeilFrom(n, 0)

RECURSIVE ScaleFrom(_, _, _, _)
ScaleFrom(w, h, budget, scale) ==
  IF scale < 16 /\ (w \div scale) * (h \div scale) > budget
    THEN ScaleFrom(w, h, budget, scale + 1)
    ELSE scale

\* a choice of scale that only ever halves
ChooseScale_Two(w, h, budget) == IF w * h > budget THEN 2 ELSE 1

ChooseScale(w, h, budget) ==
  IF w * h > budget
    THEN ScaleFrom(w, h, budget,
                   Max(SqrtCeil((w * h + budget - 1) \div budget), 2))
    ELSE 1

Downsample(w, h, budget) ==
  LET scale == ChooseScale(w, h, budget)
  IN  IF scale <= 1 \/ w \div scale = 0 \/ h \div scale = 0
        THEN [w |-> w, h |-> h, scale |-> 1]
        ELSE [w |-> w \div scale, h |-> h \div scale, scale |-> scale]

\* downsample returns the Arc it was given
ReturnsInput(w, h, budget) ==
  LET scale == ChooseScale(w, h, budget)
  IN  scale <= 1 \/ w \div scale = 0 \/ h \div scale = 0

\* a downsample that sizes the scratch buffer before it looks at the scale
BufferAfter_Eager(len, w, h, budget) ==
  LET small == Downsample(w, h, budget)
  IN  Max(len, small.w * small.h * 4)

\* the length of the scratch buffer after downsample
BufferAfter(len, w, h, budget) ==
  LET small == Downsample(w, h, budget)
  IN  IF ReturnsInput(w, h, budget) THEN len ELSE Max(len, small.w * small.h * 4)

\* ------------------------------------------------------------------------
\* Video encoder wrapper (EncoderImpl)
\* ------------------------------------------------------------------------
NoPipeline ==
  [width |-> 0, height |-> 0, codec |-> "none", config_b64 |-> <<>>, pending_idr |-> FALSE]

\* EncoderImpl::new after the codec check and the placeholder encoder
EncoderNew(codec) ==
  [width |-> 0, height |-> 0, codec |-> codec, config_b64 |-> <<>>, pending_idr |-> TRUE]

\* What the codec library can answer to one encode call: whether building an
\* encoder for new dimensions succeeds, what the encode returns (an error,
\* no NAL, slice NALs only, or parameter sets and slices), and what an
\* explicit request for the parameter sets returns.
CtorResults == BOOLEAN

EncodeResults == {"error", "empty", "slices", "sps_pps_slices"}

ParameterSetResults == {"error", "none", "sps_pps"}

\* the descriptor built from the parameter sets of an encoder of w x h
Descriptor(w, h) == <<w, h>>

\* an encode that rebuilds the encoder for new dimensions without asking for
\* an IDR
Encode_NoIdrOnRebuild(e, fw, fh, force_idr, ctor, out, ps) ==
  LET even_w == fw - (fw % 2)
      even_h == fh - (fh % 2)
      rebuild == e.width # even_w \/ e.height # even_h
      e1 == IF rebuild
              THEN [e EXCEPT !.width = even_w, !.height = even_h, !.config_b64 = <<>>]
              ELSE e
      idr == e1.pending_idr \/ force_idr
      e2 == [e1 EXCEPT !.pending_idr = FALSE]
      in_band == out = "sps_pps_slices"
      e3 == IF e2.config_b64 = <<>> /\ (in_band \/ ps = "sps_pps")
              THEN [e2 EXCEPT !.config_b64 = Descriptor(even_w, even_h)]
              ELSE e2
  IN  IF even_w = 0 \/ even_h = 0
        THEN [enc |-> e, r |-> "none", idr |-> FALSE]
      ELSE IF rebuild /\ ~ctor
        THEN [enc |-> e, r |-> "rebuild_error", idr |-> FALSE]
      ELSE IF out = "error"
        THEN [enc |-> e2, r |-> "error", idr |-> idr]
      ELSE IF e2.config_b64 = <<>> /\ ~in_band /\ ps = "error"
        THEN [enc |-> e2, r |-> "error", idr |-> idr]
      ELSE IF out = "empty"
        THEN [enc |-> e3, r |-> "none", idr |-> idr]
      ELSE [enc |-> e3, r |-> "chunk", idr |-> idr]

\* EncoderImpl::encode: the new encoder state, the outcome ("rebuild_error"
\* when building the encoder for new dimensions failed, "error", "none" or
\* "chunk") and whether an IDR was forced for this frame
Encode(e, fw, fh, force_idr, ctor, out, ps) ==
  LET even_w == fw - (fw % 2)
      even_h == fh - (fh % 2)
      rebuild == e.width # even_w \/ e.height # even_h
      e1 == IF rebuild
              THEN [e EXCEPT !.width = even_w, !.height = even_h,
                             !.config_b64 = <<>>, !.pending_idr = TRUE]
              ELSE e
      idr == e1.pending_idr \/ force_idr
      e2 == [e1 EXCEPT !.pending_idr = FALSE]
      in_band == out = "sps_pps_slices"
      e3 == IF e2.config_b64 = <<>> /\ (in_band \/ ps = "sps_pps")
              THEN [e2 EXCEPT !.config_b64 = Descriptor(even_w, even_h)]
              ELSE e2
  IN  IF even_w = 0 \/ even_h = 0
        THEN [enc |-> e, r |-> "none", idr |-> FALSE]
      ELSE IF rebuild /\ ~ctor
        THEN [enc |-> e, r |-> "rebuild_error", idr |-> FALSE]
      ELSE IF out = "error"
        THEN [enc |-> e2, r |-> "error", idr |-> idr]
      ELSE IF e2.config_b64 = <<>> /\ ~in_band /\ ps = "error"
        THEN [enc |-> e2, r |-> "error", idr |-> idr]
      ELSE IF out = "empty"
        THEN [enc |-> e3, r |-> "none", idr |-> idr]
      ELSE [enc |-> e3, r |-> "chunk", idr |-> idr]

\* EncoderImpl::config
Config(e) == [codec |-> e.codec, width |-> e.width, height |-> e.height,
              description_b64 |-> e.config_b64]

\* ------------------------------------------------------------------------
\* Offline player inputs: the MP4 file and the command line
\* ------------------------------------------------------------------------
\* what read_sample answers for each sample index: a sync sample, a
\* non-sync sample, a hole (Ok(None)) or a read error
Files ==
  { <<"key", "delta", "key">>,
    <<"delta", "key", "delta">>,
    <<"delta", "hole", "delta">>,
    <<"key", "error", "delta">>,
    <<"key", "hole", "delta">> }

\* frames per second of the video track
FrameRates == {25}

\* the step of the player's clock, in ms: the time between two frames
Quantum == 40

\* --start, in milliseconds
StartTimes == {0, 40, 200}

\* the decoded audio track: none, or sample rate, channels and the number
\* of decoded i16 samples
NoAudio == [present |-> FALSE, sample_rate |-> 48000, channels |-> 2, len |-> 0]

Audios == { NoAudio, [present |-> TRUE, sample_rate |-> 48000, channels |-> 2, len |-> 5000] }

\* timestamp_secs of the sample at a 1-based index, in milliseconds
TimestampMs(index, fps) == ((index - 1) * 1000) \div fps

\* (t * sample_rate * channels) as usize, t in milliseconds
SampleAt(t_ms, a) == (t_ms * a.sample_rate * a.channels) \div 1000

\* audio_chunk_samples: 40 ms of interleaved samples
AudioChunkSamples(a) == (a.sample_rate * a.channels * 40) \div 1000

\* FrameIterator::next from video_sample_idx: skips holes, stops at the end
\* of the track, yields a read error or a sample
RECURSIVE IterNext(_, _)
IterNext(f, i) ==
  IF i > Len(f) THEN [r |-> "end", index |-> i, key |-> FALSE]
  ELSE IF f[i] = "hole" THEN IterNext(f, i + 1)
  ELSE IF f[i] = "error" THEN [r |-> "error", index |-> i, key |-> FALSE]
  ELSE [r |-> "frame", index |-> i, key |-> f[i] = "key"]

\* a window sent as one AUD0 message, however long it is
AudioWindow_Whole(pos, end, len, size) ==
  IF pos < end /\ pos < len THEN <<AudioBinary(pos, Min(end, len))>> ELSE <<>>

\* a window whose chunks each start one sample before the end of the last
RECURSIVE AudioWindow_Overlapping(_, _, _, _)
AudioWindow_Overlapping(pos, end, len, size) ==
  IF pos < end /\ pos < len
    THEN LET chunk_end == Min(Min(pos + size, end), len)
         IN  <<AudioBinary(Max(pos - 1, 0), chunk_end)>>
               \o AudioWindow_Overlapping(chunk_end, end, len, size)
    ELSE <<>>

\* the AUD0 messages of the window pos .. end of an audio track of len samples
RECURSIVE AudioWindow(_, _, _, _)
AudioWindow(pos, end, len, size) ==
  IF pos < end /\ pos < len
    THEN LET chunk_end == Min(Min(pos + size, end), len)
         IN  (IF chunk_end > pos THEN <<AudioBinary(pos, chunk_end)>> ELSE <<>>)
               \o AudioWindow(chunk_end, end, len, size)
    ELSE <<>>

\* ------------------------------------------------------------------------
\* Frame source inputs
\* ------------------------------------------------------------------------
\* width and height of the frames the capture source can produce
FrameDims == { <<1, 2>>, <<2, 2>>, <<4, 4>> }

Listeners == 1 .. NumListeners

\* ------------------------------------------------------------------------
\* State
\* ------------------------------------------------------------------------
VARIABLES
  kind,                 \* "live" (src/src) or "offline" (foundry-player) session
  sock,                 \* the WebSocket towards the peer: "open" or "failed"
  ticker,               \* the drainer's 10 s interval: "ready", "waiting", "dropped"
  forwarded,            \* history: a queued message was written to the socket
                        \* since the last heartbeat
  outPc,                \* outbound drainer task: "run" or "done"
  q,                    \* the bounded outbound channel tx -> rx
  sent,                 \* transcript of the tx.send calls
  received,             \* kinds of streaming message written to the socket so far
  pc,                   \* inbound/producer task (live) or paced player (offline)
  pend,                 \* messages the suspended task still has to tx.send
  after,                \* where the task continues once pend is sent
  why,                  \* why the task ended
  rdPc,                 \* inbound reader task of the offline session
  req,                  \* negotiate_mode: what the receiver yielded (a local)
  codec,                \* the negotiated codec
  pipeline,             \* the EncoderImpl of the session
  pending_config_sent,  \* run_video: the video-config has been sent
  force_idr_next,       \* run_video: a force-keyframe request is pending
  keyframe_asked,       \* history: a force-keyframe text was taken and no video
                        \* binary has been made since
  listeners,            \* Recorder.listeners: the registered senders, in order
  lq,                   \* the capacity-1 queue of each listener
  lrx,                  \* each listener's receiver: "none", "open" or "closed"
  DROPPED_COUNT,        \* the static drop counter of the frame receiver thread
  cmds,                 \* the video_startstop channel
  started,              \* the control thread's `started'
  nFrames,              \* frames captured so far
  regAt,                \* per listener: frames captured before it registered
  countAt,              \* per listener: DROPPED_COUNT when it registered
  drained,              \* per listener: its session has received a frame
  sinceOk,              \* try_sends that found a queue full since the last Ok
  file,                 \* offline: the samples of the video track
  fps,                  \* offline: Mp4Demuxer.frame_rate
  start_time,           \* offline: AppState.start_time, in ms
  loop_playback,        \* offline: AppState.loop_playback
  audio,                \* offline: AppState.audio
  idx,                  \* offline: FrameIterator.video_sample_idx
  found_keyframe,       \* offline: run_playback found_keyframe
  last_audio_time,      \* offline: run_playback last_audio_time, in ms
  elapsed,              \* offline: playback_start.elapsed(), in ms
  call,                 \* a function applied on its own: name, argument, result
  buffer,               \* Downsampler.buffer: the length of the scratch buffer
  buckets,              \* mixer task: the MixBucket of each key
  last_prune,           \* mixer task: the instant of the last prune, in ms
  now,                  \* the wall clock (Instant::now()), in ms
  mixed,                \* the MixedChunk broadcast last, if any
  fed                   \* the instant the mixer last took an input, in ms

chanVars == <<sock, ticker, forwarded, outPc, q, sent, received>>

taskVars == <<pc, pend, after, why>>

liveVars == <<req, codec, pipeline, pending_config_sent, force_idr_next, keyframe_asked>>

recVars == <<listeners, lq, lrx, DROPPED_COUNT, cmds, started, nFrames,
             regAt, countAt, drained, sinceOk>>

fileVars == <<file, fps, start_time, loop_playback, audio>>

offVars == <<idx, found_keyframe, last_audio_time, elapsed>>

\* functions and objects exercised on their own, outside a session
downVars == <<buffer>>

mixVars == <<buckets, last_prune, now, mixed, fed>>

unitVars == <<call, downVars, mixVars>>

vars == <<kind, chanVars, taskVars, rdPc, liveVars, recVars, fileVars, offVars, unitVars>>

NotYet == [ClientBlank EXCEPT !.k = "pending"]

InitChannel ==
  /\ sock = "open"
  /\ ticker = "ready"
  /\ forwarded = FALSE
  /\ outPc = "run"
  /\ q = <<>>
  /\ sent = <<>>
  /\ received = {}

InitLive ==
  /\ req = NotYet
  /\ codec = "none"
  /\ pipeline = NoPipeline
  /\ pending_config_sent = FALSE
  /\ force_idr_next = FALSE
  /\ keyframe_asked = FALSE

InitRecorder ==
  /\ listeners = <<>>
  /\ lq = [l \in Listeners |-> <<>>]
  /\ lrx = [l \in Listeners |-> "none"]
  /\ DROPPED_COUNT = 0
  /\ cmds = <<>>
  /\ started = FALSE
  /\ nFrames = 0
  /\ regAt = [l \in Listeners |-> 0]
  /\ countAt = [l \in Listeners |-> 0]
  /\ drained = [l \in Listeners |-> FALSE]
  /\ sinceOk = 0

\* no function is being applied
Idle == [fn |-> "none", in |-> <<>>, out |-> <<>>, from |-> <<>>]

InitMixer ==
  /\ buckets = <<>>
  /\ last_prune = 0
  /\ now = 0
  /\ mixed = <<>>
  /\ fed = 0

InitUnits == call = Idle /\ buffer = 0 /\ InitMixer

InitPlayer ==
  /\ idx = 1
  /\ found_keyframe = FALSE
  /\ last_audio_time = 0
  /\ elapsed = 0

\* a broadcaster session right after handle_ws spawned its two tasks
InitLiveSession ==
  /\ kind = "live"
  /\ pc = "negotiate"
  /\ rdPc = "none"
  /\ file = <<>>
  /\ fps = 25
  /\ start_time = 0
  /\ loop_playback = FALSE
  /\ audio = NoAudio

\* a player session right after handle_ws spawned its three tasks
InitOfflineSession ==
  /\ kind = "offline"
  /\ pc = "config"
  /\ rdPc = "run"
  /\ file \in Files
  /\ fps \in FrameRates
  /\ start_time \in StartTimes
  /\ loop_playback \in BOOLEAN
  /\ audio \in Audios

Init ==
  /\ InitChannel
  /\ InitLive
  /\ InitRecorder
  /\ InitPlayer
  /\ InitUnits
  /\ pend = <<>>
  /\ after = "none"
  /\ why = ""
  /\ (InitLiveSession \/ InitOfflineSession)

\* ------------------------------------------------------------------------
\* Outbound drainer task (handle_ws, both binaries)
\* ------------------------------------------------------------------------
\* sender.send(msg).await of the drainer: the write succeeds, or it fails
\* because the peer went away or the connection broke
WriteResults == BOOLEAN

\* a drainer that takes the newest queued message instead of the oldest
OutForward_Newest ==
  /\ outPc = "run"
  /\ q # <<>>
  /\ \E ok \in WriteResults :
       IF ok
         THEN /\ received' = Written(received, Last(q))
              /\ q' = SubSeq(q, 1, Len(q) - 1)
              /\ forwarded' = TRUE
              /\ UNCHANGED <<sock, ticker, outPc>>
         ELSE /\ sock' = "failed"
              /\ ticker' = "dropped"
              /\ forwarded' = forwarded
              /\ q' = <<>>
              /\ outPc' = "done"
              /\ received' = received
  /\ UNCHANGED <<sent>>
  /\ UNCHANGED <<unitVars, kind, taskVars, rdPc, liveVars, recVars, fileVars, offVars>>

\* Some(msg) = rx.recv() => sender.send(msg): a failed write ends the task
\* and drops rx with whatever is still queued
OutForward ==
  /\ outPc = "run"
  /\ q # <<>>
  /\ \E ok \in WriteResults :
       IF ok
         THEN /\ received' = Written(received, Head(q))
              /\ q' = Tail(q)
              /\ forwarded' = TRUE
              /\ UNCHANGED <<sock, ticker, outPc>>
         ELSE /\ sock' = "failed"
              /\ ticker' = "dropped"
              /\ forwarded' = forwarded
              /\ q' = <<>>
              /\ outPc' = "done"
              /\ received' = received
  /\ UNCHANGED <<sent>>
  /\ UNCHANGED <<unitVars, kind, taskVars, rdPc, liveVars, recVars, fileVars, offVars>>

\* _ = ticker.tick() => sender.send("heartbeat")
OutHeartbeat ==
  /\ outPc = "run"
  /\ ticker = "ready"
  /\ \E ok \in WriteResults :
       IF ok
         THEN /\ ticker' = "waiting"
              /\ forwarded' = FALSE
              /\ UNCHANGED <<sock, outPc, q>>
         ELSE /\ sock' = "failed"
              /\ ticker' = "dropped"
              /\ forwarded' = forwarded
              /\ q' = <<>>
              /\ outPc' = "done"
  /\ UNCHANGED <<sent, received>>
  /\ UNCHANGED <<unitVars, kind, taskVars, rdPc, liveVars, recVars, fileVars, offVars>>

\* the interval's next period elapses (the first tick is immediate)
TickElapse ==
  /\ outPc = "run"
  /\ ticker = "waiting"
  /\ ticker' = "ready"
  /\ UNCHANGED <<sock, forwarded, outPc, q, sent, received>>
  /\ UNCHANGED <<unitVars, kind, taskVars, rdPc, liveVars, recVars, fileVars, offVars>>

\* ------------------------------------------------------------------------
\* tx.send(..).await of the producer: suspends while the channel is full,
\* fails once rx is dropped
\* ------------------------------------------------------------------------
\* run_video returning drops listen_frames, the receiver of listener 1
ListenerOf(newpc) ==
  /\ lrx' = IF kind = "live" /\ newpc = "done" /\ lrx[1] = "open"
              THEN [lrx EXCEPT ![1] = "closed"] ELSE lrx
  /\ lq' = IF kind = "live" /\ newpc = "done" THEN [lq EXCEPT ![1] = <<>>] ELSE lq

\* a producer that drops the message when the queue is full (try_send)
SendStep_Drops ==
  /\ pc = "send"
  /\ pend # <<>>
  /\ LET p == Head(pend)
         rest == Tail(pend)
         next == IF rest = <<>> THEN after ELSE "send"
     IN  IF outPc = "done"
           THEN /\ sent' = Log(sent, p.m)
                /\ q' = q
                /\ IF p.brk
                     THEN /\ pc' = "done"
                          /\ pend' = <<>>
                          /\ why' = "transport"
                          /\ ListenerOf("done")
                     ELSE /\ pc' = next
                          /\ pend' = rest
                          /\ why' = why
                          /\ ListenerOf(next)
           ELSE /\ q' = IF Len(q) < OutboundCap THEN Append(q, p.m) ELSE q
                /\ sent' = Log(sent, p.m)
                /\ pc' = next
                /\ pend' = rest
                /\ why' = why
                /\ ListenerOf(next)
  /\ UNCHANGED <<sock, ticker, forwarded, outPc, received, after>>
  /\ UNCHANGED <<listeners, DROPPED_COUNT, cmds, started, nFrames,
                 regAt, countAt, drained, sinceOk>>
  /\ UNCHANGED <<unitVars, kind, rdPc, liveVars, fileVars, offVars>>

SendStep ==
  /\ pc = "send"
  /\ pend # <<>>
  /\ LET p == Head(pend)
         rest == Tail(pend)
         next == IF rest = <<>> THEN after ELSE "send"
     IN  IF outPc = "done"
           THEN /\ sent' = Log(sent, p.m)
                /\ q' = q
                /\ IF p.brk
                     THEN /\ pc' = "done"
                          /\ pend' = <<>>
                          /\ why' = "transport"
                          /\ ListenerOf("done")
                     ELSE /\ pc' = next
                          /\ pend' = rest
                          /\ why' = why
                          /\ ListenerOf(next)
           ELSE /\ Len(q) < OutboundCap
                /\ q' = Append(q, p.m)
                /\ sent' = Log(sent, p.m)
                /\ pc' = next
                /\ pend' = rest
                /\ why' = why
                /\ ListenerOf(next)
  /\ UNCHANGED <<sock, ticker, forwarded, outPc, received, after>>
  /\ UNCHANGED <<listeners, DROPPED_COUNT, cmds, started, nFrames,
                 regAt, countAt, drained, sinceOk>>
  /\ UNCHANGED <<unitVars, kind, rdPc, liveVars, fileVars, offVars>>

\* ------------------------------------------------------------------------
\* Frame source (Recorder, its control thread and its frame receiver thread)
\* ------------------------------------------------------------------------
\* what try_send answers for a listener
TrySend(l) ==
  IF lrx[l] = "closed" THEN "closed"
  ELSE IF Len(lq[l]) >= LISTENER_CAPACITY THEN "full"
  ELSE "ok"

\* the retain closure without the reset on a successful try_send
RECURSIVE CountAfter_NoReset(_, _)
CountAfter_NoReset(ls, count) ==
  IF ls = <<>> THEN count
  ELSE IF TrySend(Head(ls)) = "full" THEN CountAfter_NoReset(Tail(ls), count + 1)
  ELSE CountAfter_NoReset(Tail(ls), count)

\* DROPPED_COUNT after the retain closure ran over the listeners ls in order
RECURSIVE CountAfter(_, _)
CountAfter(ls, count) ==
  IF ls = <<>> THEN count
  ELSE IF TrySend(Head(ls)) = "ok" THEN CountAfter(Tail(ls), 0)
  ELSE IF TrySend(Head(ls)) = "full" THEN CountAfter(Tail(ls), count + 1)
  ELSE CountAfter(Tail(ls), count)

\* a retain closure that keeps the listeners whose receiver is closed
Retained_KeepsClosed(ls) == ls

\* the listeners retain keeps
Retained(ls) == SelectSeq(ls, LAMBDA l : TrySend(l) # "closed")

\* a new_listener that asks for the start at every registration
NewListener_AlwaysStarts(l) ==
  /\ listeners' = Append(listeners, l)
  /\ cmds' = Append(cmds, TRUE)
  /\ lrx' = [lrx EXCEPT ![l] = "open"]
  /\ lq' = [lq EXCEPT ![l] = <<>>]
  /\ regAt' = [regAt EXCEPT ![l] = nFrames]
  /\ countAt' = [countAt EXCEPT ![l] = DROPPED_COUNT]

\* Recorder::new_listener for listener l
NewListener(l) ==
  /\ listeners' = Append(listeners, l)
  /\ cmds' = IF Len(listeners) = 0 THEN Append(cmds, TRUE) ELSE cmds
  /\ lrx' = [lrx EXCEPT ![l] = "open"]
  /\ lq' = [lq EXCEPT ![l] = <<>>]
  /\ regAt' = [regAt EXCEPT ![l] = nFrames]
  /\ countAt' = [countAt EXCEPT ![l] = DROPPED_COUNT]

\* a frame receiver thread that stops offering the frame at the first
\* listener whose queue is full
CaptureFrame_StopsAtFull ==
  /\ started
  /\ nFrames < MaxFrames
  /\ \E d \in FrameDims :
       LET frame == [id |-> nFrames + 1, w |-> d[1], h |-> d[2]]
           at == { i \in 1 .. Len(listeners) : TrySend(listeners[i]) = "ok" }
           lastOk == IF at = {} THEN 0 ELSE CHOOSE i \in at : \A j \in at : j <= i
           fullAfter == { i \in 1 .. Len(listeners) :
                            i > lastOk /\ TrySend(listeners[i]) = "full" }
       IN  /\ nFrames' = nFrames + 1
           /\ lq' = [l \in Listeners |->
                       IF (\E i \in 1 .. Len(listeners) :
                             /\ listeners[i] = l
                             /\ \A j \in 1 .. i - 1 : TrySend(listeners[j]) # "full")
                            /\ TrySend(l) = "ok"
                         THEN Append(lq[l], frame) ELSE lq[l]]
           /\ listeners' = Retained(listeners)
           /\ DROPPED_COUNT' = CountAfter(listeners, DROPPED_COUNT)
           /\ cmds' = IF listeners # <<>> /\ Retained(listeners) = <<>>
                        THEN Append(cmds, FALSE) ELSE cmds
           /\ sinceOk' = IF at = {} THEN sinceOk + Cardinality(fullAfter)
                         ELSE Cardinality(fullAfter)
  /\ UNCHANGED <<lrx, started, regAt, countAt, drained>>
  /\ UNCHANGED <<unitVars, kind, chanVars, taskVars, rdPc, liveVars, fileVars, offVars>>

\* create_frame_receiver_thread: one frame from the capture source, offered
\* to every listener under the lock
CaptureFrame ==
  /\ started
  /\ nFrames < MaxFrames
  /\ \E d \in FrameDims :
       LET frame == [id |-> nFrames + 1, w |-> d[1], h |-> d[2]]
           at == { i \in 1 .. Len(listeners) : TrySend(listeners[i]) = "ok" }
           lastOk == IF at = {} THEN 0 ELSE CHOOSE i \in at : \A j \in at : j <= i
           fullAfter == { i \in 1 .. Len(listeners) :
                            i > lastOk /\ TrySend(listeners[i]) = "full" }
       IN  /\ nFrames' = nFrames + 1
           /\ lq' = [l \in Listeners |->
                       IF (\E i \in 1 .. Len(listeners) : listeners[i] = l)
                            /\ TrySend(l) = "ok"
                         THEN Append(lq[l], frame) ELSE lq[l]]
           /\ listeners' = Retained(listeners)
           /\ DROPPED_COUNT' = CountAfter(listeners, DROPPED_COUNT)
           /\ cmds' = IF listeners # <<>> /\ Retained(listeners) = <<>>
                        THEN Append(cmds, FALSE) ELSE cmds
           /\ sinceOk' = IF at = {} THEN sinceOk + Cardinality(fullAfter)
                         ELSE Cardinality(fullAfter)
  /\ UNCHANGED <<lrx, started, regAt, countAt, drained>>
  /\ UNCHANGED <<unitVars, kind, chanVars, taskVars, rdPc, liveVars, fileVars, offVars>>

\* the control thread takes one start/stop command
Control ==
  /\ cmds # <<>>
  /\ started' = Head(cmds)
  /\ cmds' = Tail(cmds)
  /\ UNCHANGED <<listeners, lq, lrx, DROPPED_COUNT, nFrames,
                 regAt, countAt, drained, sinceOk>>
  /\ UNCHANGED <<unitVars, kind, chanVars, taskVars, rdPc, liveVars, fileVars, offVars>>

\* ------------------------------------------------------------------------
\* Live session: session::start, negotiate_mode, run_video
\* ------------------------------------------------------------------------
\* what the receiver can yield: a client message while the socket is up, or
\* the end of the stream / an error at any time
Yields(m) == (m \in ClientMsgs /\ sock = "open") \/ m \in StreamEnds

\* negotiate_mode: the first thing the receiver yields within 500 ms, or the
\* timeout; the ack is sent and the codec is fixed
Negotiate ==
  /\ kind = "live"
  /\ pc = "negotiate"
  /\ \E m \in ClientMsgs \cup StreamEnds \cup {Timeout} :
       /\ Yields(m) \/ m = Timeout
       /\ req' = m
       /\ codec' = NegotiatedCodec(m)
       /\ pend' = << [m |-> ModeAck(NegotiatedCodec(m)), brk |-> FALSE] >>
  /\ after' = "pipeline"
  /\ pc' = "send"
  /\ UNCHANGED <<why, pipeline, pending_config_sent, force_idr_next, keyframe_asked>>
  /\ UNCHANGED <<unitVars, kind, chanVars, rdPc, recVars, fileVars, offVars>>

\* a pipeline construction that does not reject HEVC
PipelineNew_AcceptsHevc ==
  /\ kind = "live"
  /\ pc = "pipeline"
  /\ req' = NotYet
  /\ \E ctor \in CtorResults :
       IF ~ctor
         THEN /\ pend' = << [m |-> ModeAckUnavailable, brk |-> FALSE] >>
              /\ after' = "done"
              /\ why' = "unavailable"
              /\ pc' = "send"
              /\ UNCHANGED <<pipeline, listeners, cmds, lrx, lq, regAt, countAt>>
         ELSE /\ pipeline' = EncoderNew(codec)
              /\ NewListener(1)
              /\ pc' = "run"
              /\ UNCHANGED <<pend, after, why>>
  /\ UNCHANGED <<codec, pending_config_sent, force_idr_next, keyframe_asked>>
  /\ UNCHANGED <<DROPPED_COUNT, started, nFrames, drained, sinceOk>>
  /\ UNCHANGED <<unitVars, kind, chanVars, rdPc, fileVars, offVars>>

\* VideoPipeline::new(codec), then either the video-unavailable ack or the
\* prologue of run_video (new_listener, audio subscription)
PipelineNew ==
  /\ kind = "live"
  /\ pc = "pipeline"
  /\ req' = NotYet
  /\ \E ctor \in CtorResults :
       IF codec = "hevc" \/ ~ctor
         THEN /\ pend' = << [m |-> ModeAckUnavailable, brk |-> FALSE] >>
              /\ after' = "done"
              /\ why' = "unavailable"
              /\ pc' = "send"
              /\ UNCHANGED <<pipeline, listeners, cmds, lrx, lq, regAt, countAt>>
         ELSE /\ pipeline' = EncoderNew(codec)
              /\ NewListener(1)
              /\ pc' = "run"
              /\ UNCHANGED <<pend, after, why>>
  /\ UNCHANGED <<codec, pending_config_sent, force_idr_next, keyframe_asked>>
  /\ UNCHANGED <<DROPPED_COUNT, started, nFrames, drained, sinceOk>>
  /\ UNCHANGED <<unitVars, kind, chanVars, rdPc, fileVars, offVars>>

\* the client messages run_video acts on; every other message is ignored
Handled(m) ==
  \/ m.k \in {"ping", "close"}
  \/ m.k = "text" /\ m.json /\ m.type = "force-keyframe"

\* a run_video that negotiates again when a mode request arrives later
LiveWs_Renegotiates ==
  /\ kind = "live"
  /\ pc = "run"
  /\ \E m \in ClientMsgs \cup StreamEnds :
       /\ Yields(m)
       /\ force_idr_next' =
            IF m.k = "text" /\ m.json /\ m.type = "force-keyframe"
              THEN TRUE ELSE force_idr_next
       /\ keyframe_asked' =
            IF m.k = "text" /\ m.json /\ m.type = "force-keyframe"
              THEN TRUE ELSE keyframe_asked
       /\ codec' = IF ParsesAsModeRequest(m) /\ m.type = "mode"
                      THEN NegotiatedCodec(m) ELSE codec
       /\ CASE ParsesAsModeRequest(m) /\ m.type = "mode" ->
                 /\ pend' = << [m |-> ModeAck(NegotiatedCodec(m)), brk |-> TRUE] >>
                 /\ after' = "run"
                 /\ pc' = "send"
                 /\ why' = why
                 /\ ListenerOf("send")
            [] m.k = "ping" ->
                 /\ pend' = << [m |-> Pong, brk |-> TRUE] >>
                 /\ after' = "run"
                 /\ pc' = "send"
                 /\ why' = why
                 /\ ListenerOf("send")
            [] m.k = "close" ->
                 /\ pend' = << [m |-> CloseMsg, brk |-> FALSE] >>
                 /\ after' = "done"
                 /\ pc' = "send"
                 /\ why' = "closed"
                 /\ ListenerOf("send")
            [] m.k \in {"end", "error"} ->
                 /\ pc' = "done"
                 /\ why' = "closed"
                 /\ ListenerOf("done")
                 /\ UNCHANGED <<pend, after>>
            [] OTHER ->
                 /\ ListenerOf("run")
                 /\ UNCHANGED <<pc, pend, after, why>>
  /\ UNCHANGED <<req, pipeline, pending_config_sent>>
  /\ UNCHANGED <<listeners, DROPPED_COUNT, cmds, started, nFrames,
                 regAt, countAt, drained, sinceOk>>
  /\ UNCHANGED <<unitVars, kind, chanVars, rdPc, fileVars, offVars>>

\* run_video, branch ws_msg = receiver.next()
LiveWs ==
  /\ kind = "live"
  /\ pc = "run"
  /\ \E m \in ClientMsgs \cup StreamEnds :
       /\ Yields(m)
       /\ force_idr_next' =
            IF m.k = "text" /\ m.json /\ m.type = "force-keyframe"
              THEN TRUE ELSE force_idr_next
       /\ keyframe_asked' =
            IF m.k = "text" /\ m.json /\ m.type = "force-keyframe"
              THEN TRUE ELSE keyframe_asked
       /\ CASE m.k = "ping" ->
                 /\ pend' = << [m |-> Pong, brk |-> TRUE] >>
                 /\ after' = "run"
                 /\ pc' = "send"
                 /\ why' = why
                 /\ ListenerOf("send")
            [] m.k = "close" ->
                 /\ pend' = << [m |-> CloseMsg, brk |-> FALSE] >>
                 /\ after' = "done"
                 /\ pc' = "send"
                 /\ why' = "closed"
                 /\ ListenerOf("send")
            [] m.k \in {"end", "error"} ->
                 /\ pc' = "done"
                 /\ why' = "closed"
                 /\ ListenerOf("done")
                 /\ UNCHANGED <<pend, after>>
            [] OTHER ->
                 /\ ListenerOf("run")
                 /\ UNCHANGED <<pc, pend, after, why>>
  /\ UNCHANGED <<req, codec, pipeline, pending_config_sent>>
  /\ UNCHANGED <<listeners, DROPPED_COUNT, cmds, started, nFrames,
                 regAt, countAt, drained, sinceOk>>
  /\ UNCHANGED <<unitVars, kind, chanVars, rdPc, fileVars, offVars>>

\* run_video, branches direct_audio_rx and mixer_audio_rx (one of the two
\* is subscribed): a captured or mixed chunk goes out as an AUD0 binary
LiveAudio ==
  /\ kind = "live"
  /\ pc = "run"
  /\ pend' = << [m |-> AudioBinary(0, 0), brk |-> TRUE] >>
  /\ after' = "run"
  /\ pc' = "send"
  /\ UNCHANGED <<why, req, codec, pipeline, pending_config_sent, force_idr_next, keyframe_asked>>
  /\ UNCHANGED <<unitVars, kind, chanVars, rdPc, recVars, fileVars, offVars>>

\* run_video announcing the config whenever the encoder has a descriptor
ChunkSends_Reannounce(e, sentBefore, frame, idr) ==
  LET config == Config(e)
      announce == config.description_b64 # <<>> /\ config.width > 0 /\ config.height > 0
      nowSent == sentBefore \/ announce
  IN  [flag |-> nowSent,
       msgs |-> (IF announce
                   THEN << [m |-> VideoConfigMsg(config.codec, config.description_b64,
                                                 config.width, config.height),
                            brk |-> FALSE] >>
                   ELSE <<>>)
                \o (IF nowSent
                      THEN << [m |-> VideoBinary(frame.id, idr),
                               brk |-> TRUE] >>
                      ELSE <<>>)]

\* the messages run_video sends for an encoded chunk, and the new value of
\* pending_config_sent
ChunkSends(e, sentBefore, frame, idr) ==
  LET config == Config(e)
      announce == ~sentBefore /\ config.description_b64 # <<>>
                    /\ config.width > 0 /\ config.height > 0
      nowSent == sentBefore \/ announce
  IN  [flag |-> nowSent,
       msgs |-> (IF announce
                   THEN << [m |-> VideoConfigMsg(config.codec, config.description_b64,
                                                 config.width, config.height),
                            brk |-> FALSE] >>
                   ELSE <<>>)
                \o (IF nowSent
                      THEN << [m |-> VideoBinary(frame.id, idr),
                               brk |-> TRUE] >>
                      ELSE <<>>)]

\* run_video, branch frame = listen_frames.recv(): downsample, encode, send
\* the config once, then the chunk
\* a frame branch that encodes the frame but leaves it in the listener queue
LiveFrame_Peek ==
  /\ kind = "live"
  /\ pc = "run"
  /\ lq[1] # <<>>
  /\ \E ctor \in CtorResults, out \in EncodeResults, ps \in ParameterSetResults :
       LET frame == Head(lq[1])
           small == Downsample(frame.w, frame.h, MAX_PIXELS)
           res == Encode(pipeline, small.w, small.h, force_idr_next, ctor, out, ps)
           sends == ChunkSends(res.enc, pending_config_sent, frame, res.idr)
       IN  /\ force_idr_next' = FALSE
           /\ keyframe_asked' = (keyframe_asked /\ ~(res.r = "chunk" /\ sends.msgs # <<>>))
           /\ pipeline' = res.enc
           /\ drained' = [drained EXCEPT ![1] = TRUE]
           /\ CASE res.r \in {"error", "rebuild_error"} ->
                     /\ pc' = "done"
                     /\ why' = res.r
                     /\ lq' = [lq EXCEPT ![1] = <<>>]
                     /\ lrx' = [lrx EXCEPT ![1] = "closed"]
                     /\ UNCHANGED <<pend, after, pending_config_sent>>
                [] res.r = "chunk" /\ sends.msgs # <<>> ->
                     /\ pending_config_sent' = sends.flag
                     /\ pend' = sends.msgs
                     /\ after' = "run"
                     /\ pc' = "send"
                     /\ lq' = lq
                     /\ UNCHANGED <<why, lrx>>
                [] OTHER ->
                     /\ lq' = [lq EXCEPT ![1] = Tail(@)]
                     /\ UNCHANGED <<pc, pend, after, why, lrx, pending_config_sent>>
  /\ UNCHANGED <<req, codec>>
  /\ UNCHANGED <<listeners, DROPPED_COUNT, cmds, started, nFrames, regAt, countAt, sinceOk>>
  /\ UNCHANGED <<unitVars, kind, chanVars, rdPc, fileVars, offVars>>

LiveFrame ==
  /\ kind = "live"
  /\ pc = "run"
  /\ lq[1] # <<>>
  /\ \E ctor \in CtorResults, out \in EncodeResults, ps \in ParameterSetResults :
       LET frame == Head(lq[1])
           small == Downsample(frame.w, frame.h, MAX_PIXELS)
           res == Encode(pipeline, small.w, small.h, force_idr_next, ctor, out, ps)
           sends == ChunkSends(res.enc, pending_config_sent, frame, res.idr)
       IN  /\ force_idr_next' = FALSE
           /\ keyframe_asked' = (keyframe_asked /\ ~(res.r = "chunk" /\ sends.msgs # <<>>))
           /\ pipeline' = res.enc
           /\ drained' = [drained EXCEPT ![1] = TRUE]
           /\ CASE res.r \in {"error", "rebuild_error"} ->
                     /\ pc' = "done"
                     /\ why' = res.r
                     /\ lq' = [lq EXCEPT ![1] = <<>>]
                     /\ lrx' = [lrx EXCEPT ![1] = "closed"]
                     /\ UNCHANGED <<pend, after, pending_config_sent>>
                [] res.r = "chunk" /\ sends.msgs # <<>> ->
                     /\ pending_config_sent' = sends.flag
                     /\ pend' = sends.msgs
                     /\ after' = "run"
                     /\ pc' = "send"
                     /\ lq' = [lq EXCEPT ![1] = Tail(@)]
                     /\ UNCHANGED <<why, lrx>>
                [] OTHER ->
                     /\ lq' = [lq EXCEPT ![1] = Tail(@)]
                     /\ UNCHANGED <<pc, pend, after, why, lrx, pending_config_sent>>
  /\ UNCHANGED <<req, codec>>
  /\ UNCHANGED <<listeners, DROPPED_COUNT, cmds, started, nFrames, regAt, countAt, sinceOk>>
  /\ UNCHANGED <<unitVars, kind, chanVars, rdPc, fileVars, offVars>>

\* ------------------------------------------------------------------------
\* Offline session: run_playback and the inbound reader of foundry-player
\* ------------------------------------------------------------------------
\* the description of the file's video track (Mp4Demuxer::video_config)
FileConfig == VideoConfigMsg("avc1", Descriptor(2, 2), 2, 2)

\* a player that starts streaming without the mode-ack
PbStart_NoAck ==
  /\ kind = "offline"
  /\ pc = "config"
  /\ pend' = << [m |-> FileConfig, brk |-> TRUE] >>
  /\ after' = "loop"
  /\ pc' = "send"
  /\ UNCHANGED <<why>>
  /\ UNCHANGED <<unitVars, kind, chanVars, rdPc, liveVars, recVars, fileVars, offVars>>

\* run_playback up to its loop: the video-config, then the mode-ack
PbStart ==
  /\ kind = "offline"
  /\ pc = "config"
  /\ pend' = << [m |-> FileConfig, brk |-> TRUE], [m |-> ModeAck("avc"), brk |-> TRUE] >>
  /\ after' = "loop"
  /\ pc' = "send"
  /\ UNCHANGED <<why>>
  /\ UNCHANGED <<unitVars, kind, chanVars, rdPc, liveVars, recVars, fileVars, offVars>>

\* a playback loop that keeps the pacing clock of the pass before
PbLoop_KeepsClock ==
  /\ kind = "offline"
  /\ pc = "loop"
  /\ \E opened \in BOOLEAN :
       IF opened
         THEN /\ idx' = 1
              /\ found_keyframe' = FALSE
              /\ last_audio_time' = start_time
              /\ elapsed' = elapsed
              /\ pc' = "iter"
              /\ why' = why
         ELSE /\ pc' = "done"
              /\ why' = "container"
              /\ UNCHANGED offVars
  /\ UNCHANGED <<pend, after>>
  /\ UNCHANGED <<unitVars, kind, chanVars, rdPc, liveVars, recVars, fileVars>>

\* the head of the playback loop: a fresh iterator (frames() can fail)
PbLoop ==
  /\ kind = "offline"
  /\ pc = "loop"
  /\ \E opened \in BOOLEAN :
       IF opened
         THEN /\ idx' = 1
              /\ found_keyframe' = FALSE
              /\ last_audio_time' = start_time
              /\ elapsed' = 0
              /\ pc' = "iter"
              /\ why' = why
         ELSE /\ pc' = "done"
              /\ why' = "container"
              /\ UNCHANGED offVars
  /\ UNCHANGED <<pend, after>>
  /\ UNCHANGED <<unitVars, kind, chanVars, rdPc, liveVars, recVars, fileVars>>

\* a player that starts a pass with the first frame at or after the start
Skipped_BeforeStartOnly(ts, is_keyframe) == ts < start_time

\* a player that never sleeps
MustWait_Never(target_time) == FALSE

\* if target_time > elapsed
MustWait(target_time) == target_time > elapsed

\* a player that sends keyframes only
Skipped_Deltas(ts, is_keyframe) == ts < start_time \/ ~is_keyframe

\* the two `continue's of the frame loop: the frame is before the start
\* time, or no keyframe was found yet and it is not one
Skipped(ts, is_keyframe) == ts < start_time \/ (~found_keyframe /\ ~is_keyframe)

\* one turn of `for frame in frames': the iterator's next, the start-time
\* and keyframe filters, then the audio window and the frame are due
PbFrame ==
  /\ kind = "offline"
  /\ pc = "iter"
  /\ LET it == IterNext(file, idx)
         ts == TimestampMs(it.index, fps)
         skip == Skipped(ts, it.key)
         window == IF audio.present
                     THEN AudioWindow(SampleAt(last_audio_time, audio),
                                      SampleAt(ts, audio), audio.len,
                                      AudioChunkSamples(audio))
                     ELSE <<>>
     IN  CASE it.r = "end" ->
                /\ pc' = IF loop_playback THEN "loop" ELSE "done"
                /\ why' = IF loop_playback THEN why ELSE "complete"
                /\ idx' = it.index
                /\ UNCHANGED <<pend, after, found_keyframe, last_audio_time, elapsed>>
           [] it.r = "error" ->
                /\ pc' = "done"
                /\ why' = "container"
                /\ idx' = it.index
                /\ UNCHANGED <<pend, after, found_keyframe, last_audio_time, elapsed>>
           [] it.r = "frame" /\ skip ->
                /\ idx' = it.index + 1
                /\ UNCHANGED <<pc, pend, after, why, found_keyframe, last_audio_time, elapsed>>
           [] OTHER ->
                /\ idx' = it.index + 1
                /\ found_keyframe' = TRUE
                /\ last_audio_time' = IF audio.present THEN ts ELSE last_audio_time
                /\ pend' = [i \in 1 .. Len(window) |-> [m |-> window[i], brk |-> TRUE]]
                             \o << [m |-> VideoBinary(it.index, it.key),
                                    brk |-> TRUE] >>
                /\ after' = "iter"
                /\ pc' = IF MustWait(ts - start_time) THEN "sleep" ELSE "send"
                /\ elapsed' = elapsed
                /\ why' = why
  /\ UNCHANGED <<unitVars, kind, chanVars, rdPc, liveVars, recVars, fileVars>>

\* tokio::time::sleep(target_time - elapsed) returns
PbWake ==
  /\ kind = "offline"
  /\ pc = "sleep"
  /\ elapsed >= TimestampMs(idx - 1, fps) - start_time
  /\ pc' = "send"
  /\ UNCHANGED <<pend, after, why>>
  /\ UNCHANGED <<unitVars, kind, chanVars, rdPc, liveVars, recVars, fileVars, offVars>>

\* time passes for the player, a quantum at a time
Elapse ==
  /\ kind = "offline"
  /\ pc \in {"iter", "sleep", "send"}
  /\ elapsed < MaxQuanta * Quantum
  /\ elapsed' = elapsed + Quantum
  /\ UNCHANGED <<idx, found_keyframe, last_audio_time>>
  /\ UNCHANGED <<unitVars, kind, chanVars, taskVars, rdPc, liveVars, recVars, fileVars>>

\* the inbound task of the player: texts are printed, a close, the end of
\* the stream or an error ends the task
Reader ==
  /\ kind = "offline"
  /\ rdPc = "run"
  /\ \E m \in ClientMsgs \cup StreamEnds :
       /\ Yields(m)
       /\ rdPc' = IF m.k \in {"close", "end", "error"} THEN "done" ELSE "run"
  /\ UNCHANGED <<unitVars, kind, chanVars, taskVars, liveVars, recVars, fileVars, offVars>>

\* ------------------------------------------------------------------------
\* Specification of one session
\* ------------------------------------------------------------------------
Next ==
  \/ OutForward
  \/ OutHeartbeat
  \/ TickElapse
  \/ SendStep
  \/ CaptureFrame
  \/ Control
  \/ Negotiate
  \/ PipelineNew
  \/ LiveWs
  \/ LiveAudio
  \/ LiveFrame
  \/ PbStart
  \/ PbLoop
  \/ PbFrame
  \/ Elapse
  \/ PbWake
  \/ Reader

Spec == Init /\ [][Next]_vars

\* handle_ws returns: try_join! has seen every task of the session finish
Returned == outPc = "done" /\ pc = "done" /\ rdPc \in {"done", "none"}

\* ------------------------------------------------------------------------
\* The session under the scheduling the runtime guarantees: every spawned
\* task that can take a step eventually takes one, the interval keeps
\* ticking, and a receiver whose socket has failed reports it.  The client,
\* the capture source and the failure of the peer are under no obligation.
\* ------------------------------------------------------------------------
FairSpec ==
  /\ Spec
  /\ WF_vars(OutForward)
  /\ WF_vars(OutHeartbeat)
  /\ WF_vars(TickElapse)
  /\ WF_vars(SendStep)
  /\ WF_vars(Negotiate)
  /\ WF_vars(PipelineNew)
  /\ WF_vars(LiveFrame)
  /\ WF_vars(sock = "failed" /\ LiveWs)
  /\ WF_vars(PbStart)
  /\ WF_vars(PbLoop)
  /\ WF_vars(PbFrame)
  /\ WF_vars(PbWake)
  /\ WF_vars(Elapse)
  /\ WF_vars(sock = "failed" /\ Reader)

\* ------------------------------------------------------------------------
\* The frame source with several sessions attached: each session registers
\* a listener, receives frames from it and finally drops it
\* ------------------------------------------------------------------------
\* no session is running: the part named k of the program is on its own
Detached(k) ==
  /\ InitChannel
  /\ InitLive
  /\ InitRecorder
  /\ InitPlayer
  /\ kind = k
  /\ pc = "none"
  /\ rdPc = "none"
  /\ pend = <<>>
  /\ after = "none"
  /\ why = ""
  /\ file = <<>>
  /\ fps = 25
  /\ start_time = 0
  /\ loop_playback = FALSE
  /\ audio = NoAudio

RecInit == Detached("recorder") /\ InitUnits

\* a session calls Recorder::new_listener
Register ==
  /\ \E l \in Listeners :
       /\ lrx[l] = "none"
       /\ NewListener(l)
  /\ UNCHANGED <<DROPPED_COUNT, started, nFrames, drained, sinceOk>>
  /\ UNCHANGED <<unitVars, kind, chanVars, taskVars, rdPc, liveVars, fileVars, offVars>>

\* a session's listen_frames.recv() returns a frame
Receive ==
  /\ \E l \in Listeners :
       /\ lrx[l] = "open"
       /\ lq[l] # <<>>
       /\ lq' = [lq EXCEPT ![l] = Tail(@)]
       /\ drained' = [drained EXCEPT ![l] = TRUE]
  /\ UNCHANGED <<listeners, lrx, DROPPED_COUNT, cmds, started, nFrames, regAt, countAt, sinceOk>>
  /\ UNCHANGED <<unitVars, kind, chanVars, taskVars, rdPc, liveVars, fileVars, offVars>>

\* a session ends: its receiver is dropped
Hangup ==
  /\ \E l \in Listeners :
       /\ lrx[l] = "open"
       /\ lrx' = [lrx EXCEPT ![l] = "closed"]
       /\ lq' = [lq EXCEPT ![l] = <<>>]
  /\ UNCHANGED <<listeners, DROPPED_COUNT, cmds, started, nFrames, regAt, countAt,
                 drained, sinceOk>>
  /\ UNCHANGED <<unitVars, kind, chanVars, taskVars, rdPc, liveVars, fileVars, offVars>>

RecNext ==
  \/ Register
  \/ Receive
  \/ Hangup
  \/ CaptureFrame
  \/ Control

RecSpec == RecInit /\ [][RecNext]_vars

\* the control thread serves every command it is sent, and the capture source
\* keeps producing frames while it is started
RecFairSpec ==
  /\ RecSpec
  /\ WF_vars(Control)
  /\ WF_vars(CaptureFrame)

\* ------------------------------------------------------------------------
\* Wire framing of the binary messages.  A byte string is a sequence of
\* 0 .. 255; an Option is <<>> for None and <<x>> for Some(x); an f64 is its
\* bit pattern, held as four 16-bit words, least significant first.
\* ------------------------------------------------------------------------
sessionVars == <<kind, chanVars, taskVars, rdPc, liveVars, recVars, fileVars, offVars>>

\* the sequences of at most n elements of S
UpTo(S, n) == UNION { [1 .. k -> S] : k \in 0 .. n }

\* u32::to_be_bytes and u32::from_be_bytes (of the first four bytes of b)
U32BE(n) == << (n \div 16777216) % 256, (n \div 65536) % 256, (n \div 256) % 256, n % 256 >>

FromU32BE(b) == ((b[1] * 256 + b[2]) * 256 + b[3]) * 256 + b[4]

\* u32::to_le_bytes and u32::from_le_bytes
U32LE(n) == << n % 256, (n \div 256) % 256, (n \div 65536) % 256, (n \div 16777216) % 256 >>

FromU32LE(b) == b[1] + 256 * (b[2] + 256 * (b[3] + 256 * b[4]))

\* i16::to_le_bytes and i16::from_le_bytes (two's complement)
I16LE(x) == LET u == (x + 65536) % 65536 IN << u % 256, u \div 256 >>

FromI16LE_Unsigned(b) == b[1] + 256 * b[2]

FromI16LE(b) ==
  LET u == b[1] + 256 * b[2]
  IN  IF u >= 32768 THEN u - 65536 ELSE u

\* f64::to_le_bytes and f64::from_le_bytes
F64LE(x) == << x[1] % 256, x[1] \div 256, x[2] % 256, x[2] \div 256,
               x[3] % 256, x[3] \div 256, x[4] % 256, x[4] \div 256 >>

FromF64LE(b) == << b[1] + 256 * b[2], b[3] + 256 * b[4], b[5] + 256 * b[6], b[7] + 256 * b[8] >>

\* a normalize_nal that hands on the empty rest of a unit that is only a prefix
normalize_nal_KeepsEmpty(nal) ==
  IF nal = <<>> THEN << <<>> >>
  ELSE IF Len(nal) >= 4 /\ SubSeq(nal, 1, 4) = <<0, 0, 0, 1>> THEN << SubSeq(nal, 5, Len(nal)) >>
  ELSE IF Len(nal) >= 3 /\ SubSeq(nal, 1, 3) = <<0, 0, 1>> THEN << SubSeq(nal, 4, Len(nal)) >>
  ELSE << nal >>

\* normalize_nal: the unit without its start code or length prefix, or None
normalize_nal(nal) ==
  IF nal = <<>> THEN <<>>
  ELSE LET start == IF Len(nal) >= 4 /\ SubSeq(nal, 1, 4) = <<0, 0, 0, 1>> THEN 4
                    ELSE IF Len(nal) >= 3 /\ SubSeq(nal, 1, 3) = <<0, 0, 1>> THEN 3
                    ELSE 0
           offset == IF /\ start = 0
                        /\ Len(nal) >= 4
                        /\ FromU32BE(nal) > 0
                        /\ FromU32BE(nal) + 4 <= Len(nal)
                       THEN 4 ELSE start
       IN  IF offset >= Len(nal) THEN <<>> ELSE << SubSeq(nal, offset + 1, Len(nal)) >>

\* collect_nals: the units of every layer of the bitstream, normalized
RECURSIVE collect_nals(_)
collect_nals(bitstream) ==
  IF bitstream = <<>> THEN <<>>
  ELSE normalize_nal(Head(bitstream)) \o collect_nals(Tail(bitstream))

RECURSIVE nals_to_avcc(_)
nals_to_avcc(nals) ==
  IF nals = <<>> THEN <<>>
  ELSE U32BE(Len(Head(nals))) \o Head(nals) \o nals_to_avcc(Tail(nals))

\* the end of EncoderImpl::encode: the chunk made of the encoder's bitstream
EncodedChunk(bitstream) ==
  LET nals == collect_nals(bitstream)
  IN  IF nals = <<>> THEN <<>> ELSE << nals_to_avcc(nals) >>

AUD0 == <<65, 85, 68, 48>>

RECURSIVE SamplesLE(_)
SamplesLE(samples) ==
  IF samples = <<>> THEN <<>> ELSE I16LE(Head(samples)) \o SamplesLE(Tail(samples))

\* the f64 0.0
Zero == <<0, 0, 0, 0>>

build_audio_chunk(chunk) ==
  AUD0 \o F64LE(chunk.start_ms) \o U32LE(chunk.sample_rate) \o U32LE(chunk.channels)
       \o U32LE(Len(chunk.samples)) \o SamplesLE(chunk.samples)

build_direct_audio_chunk(chunk) ==
  AUD0 \o F64LE(Zero) \o U32LE(chunk.sample_rate) \o U32LE(chunk.channels)
       \o U32LE(Len(chunk.samples)) \o SamplesLE(chunk.samples)

\* a check of the length only
is_audio_magic_Any(buf) == Len(buf) >= 4

is_audio_magic(buf) == Len(buf) >= 4 /\ SubSeq(buf, 1, 4) = AUD0

parse_audio_chunk(buf) ==
  IF ~is_audio_magic(buf) \/ Len(buf) < 24 THEN <<>>
  ELSE LET sample_count == FromU32LE(SubSeq(buf, 21, 24))
           needed == 24 + sample_count * 2
       IN  IF Len(buf) < needed THEN <<>>
           ELSE << [start_ms |-> FromF64LE(SubSeq(buf, 5, 12)),
                    sample_rate |-> FromU32LE(SubSeq(buf, 13, 16)),
                    channels |-> FromU32LE(SubSeq(buf, 17, 20)),
                    samples |-> [i \in 1 .. sample_count |->
                                   FromI16LE(SubSeq(buf, 24 + 2 * i - 1, 24 + 2 * i))]] >>

\* what the encoder may put into one unit of its bitstream: every string of
\* at most MaxNalLen bytes 0 and 1, and units with a start code, a length
\* prefix or neither around an SPS (103), a PPS (104) or a slice (101)
RawNals ==
  UpTo({0, 1}, MaxNalLen) \cup
    { <<0, 0, 0, 1>>, <<0, 0, 0, 0>>, <<0, 0, 0, 1, 103, 66>>, <<0, 0, 1, 104>>,
      <<101, 7>>, <<0, 0, 0, 2, 101, 9>>, <<0, 0, 0, 9, 101>> }

Bitstreams == UpTo(RawNals, MaxNals)

\* 0.0, 1234.5, -1.0 and a NaN
F64s == { Zero, <<0, 0, 18944, 16531>>, <<0, 0, 0, 49136>>, <<0, 0, 0, 32760>> }

SampleRates == { 44100, 48000, 2147483647 }

SampleVals == { -32768, -1, 0, 1, 32767 }

MixedChunks ==
  [start_ms : F64s, sample_rate : SampleRates, channels : {1, 2},
   samples : UpTo(SampleVals, MaxSamples)]

AudioChunks ==
  [sample_rate : SampleRates, channels : {1, 2}, samples : UpTo(SampleVals, MaxSamples)]

Applied(fn, in, out, from) == call' = [fn |-> fn, in |-> in, out |-> out, from |-> from]

EncodeCall ==
  /\ call = Idle
  /\ \E bitstream \in Bitstreams : Applied("encode", bitstream, EncodedChunk(bitstream), <<>>)
  /\ UNCHANGED <<sessionVars, downVars, mixVars>>

BuildCall ==
  /\ call = Idle
  /\ \E chunk \in MixedChunks :
       Applied("build_audio_chunk", chunk, build_audio_chunk(chunk), <<>>)
  /\ UNCHANGED <<sessionVars, downVars, mixVars>>

DirectCall ==
  /\ call = Idle
  /\ \E chunk \in AudioChunks :
       Applied("build_direct_audio_chunk", chunk, build_direct_audio_chunk(chunk), <<>>)
  /\ UNCHANGED <<sessionVars, downVars, mixVars>>

\* the peer parses what was built
ParseCall ==
  /\ call.fn \in {"build_audio_chunk", "build_direct_audio_chunk"}
  /\ Applied("parse_audio_chunk", call.out, parse_audio_chunk(call.out), call.in)
  /\ UNCHANGED <<sessionVars, downVars, mixVars>>

Return ==
  /\ call # Idle
  /\ call' = Idle
  /\ UNCHANGED <<sessionVars, downVars, mixVars>>

WireInit == Detached("wire") /\ InitUnits

WireNext ==
  \/ EncodeCall
  \/ BuildCall
  \/ DirectCall
  \/ ParseCall
  \/ Return

WireSpec == WireInit /\ [][WireNext]_vars

\* ------------------------------------------------------------------------
\* The demuxer of the offline player, byte level: the parameter sets of the
\* file and the payload FrameIterator::next makes of a sample.
\* ------------------------------------------------------------------------
\* parameter sets as the avcC box of a file holds them
ParamSets == { <<103, 66>>, <<104>>, <<>> }

ParamLists == UpTo(ParamSets, MaxNals)

\* sample.bytes of a sample of the video track
SampleBytes == { <<0, 0, 0, 1, 101>>, <<0, 0, 0, 2, 65, 1>>, <<>> }

\* for each set: (bytes.len() as u32).to_be_bytes(), then the bytes
RECURSIVE LengthPrefixed(_)
LengthPrefixed(sets) ==
  IF sets = <<>> THEN <<>>
  ELSE U32BE(Len(Head(sets))) \o Head(sets) \o LengthPrefixed(Tail(sets))

\* extract_avcc, the second component: sps_pps
extract_avcc(sequence_parameter_sets, picture_parameter_sets) ==
  LengthPrefixed(sequence_parameter_sets) \o LengthPrefixed(picture_parameter_sets)

\* a demuxer that hands every sample on as it is in the file
FrameData_Plain(sps_pps_avcc, bytes, is_sync) == bytes

\* FrameIterator::next: the data of the frame made of a sample
FrameData(sps_pps_avcc, bytes, is_sync) ==
  IF is_sync /\ sps_pps_avcc # <<>> THEN sps_pps_avcc \o bytes ELSE bytes

\* Mp4Demuxer::open (the part that reads the parameter sets)
OpenCall ==
  /\ call = Idle
  /\ \E sps \in ParamLists, pps \in ParamLists :
       Applied("open", [sps |-> sps, pps |-> pps], extract_avcc(sps, pps), <<>>)
  /\ UNCHANGED <<sessionVars, downVars, mixVars>>

\* FrameIterator::next on a demuxer that was opened, for the sample read
NextCall ==
  /\ call.fn = "open"
  /\ \E bytes \in SampleBytes, is_sync \in BOOLEAN :
       Applied("next", [bytes |-> bytes, is_sync |-> is_sync],
               [data |-> FrameData(call.out, bytes, is_sync), is_keyframe |-> is_sync],
               call.in)
  /\ UNCHANGED <<sessionVars, downVars, mixVars>>

DemuxInit == Detached("demuxer") /\ InitUnits

DemuxNext == OpenCall \/ NextCall \/ Return

DemuxSpec == DemuxInit /\ [][DemuxNext]_vars

\* ------------------------------------------------------------------------
\* The ws_msg branch of run_video on its own, with binaries as bytes
\* ------------------------------------------------------------------------
\* a binary message with its payload
BinaryMsg(data) == [k |-> "binary", data |-> data]

\* AUD0 messages as a client builds them
Wellformed ==
  { build_audio_chunk(c) :
      c \in [start_ms : {Zero}, sample_rate : {48000}, channels : {1},
             samples : UpTo({0 - 1, 1}, MaxSamples)] }

\* what is left of them when the end is cut off
Truncated == UNION { { SubSeq(b, 1, n) : n \in 0 .. Len(b) - 1 } : b \in Wellformed }

\* the same with another magic
WrongMagic == { [b EXCEPT ![4] = 49] : b \in Wellformed }

\* the same followed by one more byte
Padded == { b \o <<7>> : b \in Wellformed }

WsMsgs ==
  ClientTexts
    \cup { BinaryMsg(b) : b \in Wellformed \cup Truncated \cup WrongMagic \cup Padded }
    \cup { [ClientBlank EXCEPT !.k = "ping"], [ClientBlank EXCEPT !.k = "pong"],
           [ClientBlank EXCEPT !.k = "close"] }

\* the branch for Some(Ok(msg)): the flags of the loop after it, what went
\* to the mixer and to the outbound channel, and whether the loop goes on
WsBranch(m, force, config_sent) ==
  [force_idr_next |->
     IF m.k = "text" /\ m.json /\ m.type = "force-keyframe" THEN TRUE ELSE force,
   pending_config_sent |-> config_sent,
   to_mixer |-> IF m.k = "binary" THEN parse_audio_chunk(m.data) ELSE <<>>,
   outbound |-> IF m.k = "ping" THEN << Pong >>
                ELSE IF m.k = "close" THEN << CloseMsg >>
                ELSE <<>>,
   continues |-> m.k # "close"]

WsCall ==
  /\ call = Idle
  /\ \E m \in WsMsgs, force \in BOOLEAN, config_sent \in BOOLEAN :
       Applied("ws_msg", [m |-> m, force_idr_next |-> force,
                          pending_config_sent |-> config_sent],
               WsBranch(m, force, config_sent), <<>>)
  /\ UNCHANGED <<sessionVars, downVars, mixVars>>

InboundInit == Detached("inbound") /\ InitUnits

InboundNext == WsCall \/ Return

InboundSpec == InboundInit /\ [][InboundNext]_vars

\* ------------------------------------------------------------------------
\* The frame iterator on its own: Mp4Demuxer::frames, then next() as often
\* as a caller likes.  call keeps the last call of next: the index it
\* started from, what it yielded, and what had been yielded before (the
\* index of the last sample yielded, whether an error was yielded).
\* ------------------------------------------------------------------------
\* what read_sample answers for the samples of a track
TrackFiles == UpTo({"key", "delta", "hole", "error"}, MaxTrack)

\* Mp4Demuxer::frames: a fresh iterator at sample 1
FramesCall ==
  /\ pc = "none"
  /\ pc' = "iter"
  /\ \E f \in TrackFiles : file' = f
  /\ idx' = 1
  /\ UNCHANGED <<pend, after, why, fps, start_time, loop_playback, audio,
                 found_keyframe, last_audio_time, elapsed>>
  /\ UNCHANGED <<unitVars, kind, chanVars, rdPc, liveVars, recVars>>

\* FrameIterator::next
IterCall ==
  /\ pc = "iter"
  /\ LET it == IterNext(file, idx)
         before == IF call = Idle THEN [last |-> 0, erred |-> FALSE] ELSE call.from
     IN  /\ idx' = IF it.r = "frame" THEN it.index + 1 ELSE it.index
         /\ Applied("next", idx,
                    [r |-> it.r, index |-> it.index, key |-> it.key,
                     timestamp |-> IF it.r = "frame" THEN TimestampMs(it.index, fps) ELSE 0],
                    [last |-> IF call = Idle THEN 0
                              ELSE IF call.out.r = "frame" THEN call.out.index
                              ELSE before.last,
                     erred |-> call # Idle /\ (before.erred \/ call.out.r = "error")])
  /\ UNCHANGED <<pc, pend, after, why, fileVars, found_keyframe, last_audio_time, elapsed>>
  /\ UNCHANGED <<downVars, mixVars, kind, chanVars, rdPc, liveVars, recVars>>

IterInit == Detached("iterator") /\ InitUnits

IterStep ==
  \/ FramesCall
  \/ IterCall

IterSpec == IterInit /\ [][IterStep]_vars

\* ------------------------------------------------------------------------
\* The video pipeline on its own: VideoPipeline::new, then the frame branch
\* of run_video (downsample, encode, video-config once, chunk) for frames
\* of changing sizes.  call keeps the last frame handled: the encoder before
\* it, what came out, and the video-config announced so far.
\* ------------------------------------------------------------------------
\* width and height of the frames handed to the frame branch
VideoDims == { <<1, 2>>, <<2, 1>>, <<2, 2>>, <<3, 2>>, <<2, 4>>, <<4, 4>> }

\* encode returned Err: run_video returns and the pipeline is dropped
Failed == call # Idle /\ call.out.r \in {"error", "rebuild_error"}

VideoNew ==
  /\ pipeline = NoPipeline
  /\ pipeline' = EncoderNew("avc")
  /\ UNCHANGED <<req, codec, pending_config_sent, force_idr_next, keyframe_asked>>
  /\ UNCHANGED <<unitVars, kind, chanVars, taskVars, rdPc, recVars, fileVars, offVars>>

VideoFrame ==
  /\ pipeline # NoPipeline
  /\ ~Failed
  /\ \E d \in VideoDims, force \in BOOLEAN,
        ctor \in CtorResults, out \in EncodeResults, ps \in ParameterSetResults :
       LET frame == [id |-> 1, w |-> d[1], h |-> d[2]]
           small == Downsample(frame.w, frame.h, MAX_PIXELS)
           res == Encode(pipeline, small.w, small.h, force, ctor, out, ps)
           sends == IF res.r = "chunk"
                      THEN ChunkSends(res.enc, pending_config_sent, frame, res.idr)
                      ELSE [flag |-> pending_config_sent, msgs |-> <<>>]
           configs == SelectSeq(sends.msgs, LAMBDA p : p.m.t = "video-config")
       IN  /\ pipeline' = res.enc
           /\ pending_config_sent' = sends.flag
           /\ buffer' = BufferAfter(buffer, frame.w, frame.h, MAX_PIXELS)
           /\ Applied("frame",
                      [enc |-> pipeline, w |-> small.w, h |-> small.h, force |-> force],
                      [r |-> res.r, idr |-> res.idr, msgs |-> sends.msgs],
                      IF configs # <<>> THEN <<configs[1].m>> ELSE call.from)
  /\ UNCHANGED <<req, codec, force_idr_next, keyframe_asked>>
  /\ UNCHANGED <<mixVars, kind, chanVars, taskVars, rdPc, recVars, fileVars, offVars>>

VideoInit == Detached("video") /\ InitUnits

VideoNext ==
  \/ VideoNew
  \/ VideoFrame

VideoSpec == VideoInit /\ [][VideoNext]_vars

\* ------------------------------------------------------------------------
\* The pixels handed to the encoder.  Frame.raw holds the pixels row by row,
\* four bytes each (R, G, B, A); the encoder is given three bytes for each
\* pixel of even_w x even_h.
\* ------------------------------------------------------------------------
\* frames of every small size; the bytes of a frame are all different
RawFrames ==
  { [w |-> w, h |-> h, raw |-> [j \in 1 .. w * h * 4 |-> (j - 1 + 64 * shift) % 256]] :
      w \in 1 .. MaxDim, h \in 1 .. MaxDim, shift \in 0 .. 2 }

\* rgba_to_yuv420: the rgb vector given to YUVBuffer::with_rgb(width, height)
rgba_to_yuv420(src, width, height) ==
  [k \in 1 .. width * height * 3 |-> src[((k - 1) \div 3) * 4 + ((k - 1) % 3) + 1]]

\* EncoderImpl::encode down to the conversion: what the encoder is fed, or
\* nothing for a frame that is skipped
EncoderInput(frame) ==
  LET even_w == frame.w - (frame.w % 2)
      even_h == frame.h - (frame.h % 2)
  IN  IF even_w = 0 \/ even_h = 0
        THEN [width |-> 0, height |-> 0, rgb |-> <<>>]
        ELSE [width |-> even_w, height |-> even_h,
              rgb |-> rgba_to_yuv420(frame.raw, even_w, even_h)]

ConvertCall ==
  /\ call = Idle
  /\ \E frame \in RawFrames : Applied("rgba_to_yuv420", frame, EncoderInput(frame), <<>>)
  /\ UNCHANGED <<sessionVars, downVars, mixVars>>

PixelInit == Detached("pixels") /\ InitUnits

PixelNext ==
  \/ ConvertCall
  \/ Return

PixelSpec == PixelInit /\ [][PixelNext]_vars

\* ------------------------------------------------------------------------
\* The downsampler on its own: frames of every small size against a small
\* pixel budget, and frames of display sizes against MAX_PIXELS
\* ------------------------------------------------------------------------
RealDims ==
  { <<1, 1>>, <<1920, 1080>>, <<1921, 1080>>, <<2560, 1440>>, <<3840, 2160>>,
    <<3841, 2160>>, <<7680, 4320>>, <<32000, 18000>>, <<2073601, 1>> }

DownInputs ==
  { [w |-> w, h |-> h, budget |-> PixelBudget] : w \in 1 .. MaxDim, h \in 1 .. MaxDim }
    \cup { [w |-> d[1], h |-> d[2], budget |-> MAX_PIXELS] : d \in RealDims }

DownsampleCall ==
  /\ call = Idle
  /\ \E f \in DownInputs :
       /\ Applied("downsample", [w |-> f.w, h |-> f.h, budget |-> f.budget, buffer |-> buffer],
                  [w |-> Downsample(f.w, f.h, f.budget).w,
                   h |-> Downsample(f.w, f.h, f.budget).h,
                   scale |-> Downsample(f.w, f.h, f.budget).scale,
                   shared |-> ReturnsInput(f.w, f.h, f.budget)], <<>>)
       /\ buffer' = BufferAfter(buffer, f.w, f.h, f.budget)
  /\ UNCHANGED <<sessionVars, mixVars>>

DownInit == Detached("downsampler") /\ InitUnits

DownNext ==
  \/ DownsampleCall
  \/ Return

DownSpec == DownInit /\ [][DownNext]_vars

\* ------------------------------------------------------------------------
\* Audio mixer task (AudioMixer::new): one iteration of its loop per input
\* ------------------------------------------------------------------------
AccMax == 2 * (SampleMax + 1) - 1

\* i32::saturating_add
SatAdd(a, b) == Max(Min(a + b, AccMax), 0 - AccMax - 1)

\* `val as i16' without the clamp
Clamp16_Wraps(v) == ((v + SampleMax + 1) % (2 * (SampleMax + 1))) - SampleMax - 1

\* val.max(i16::MIN as i32).min(i16::MAX as i32) as i16
Clamp16(v) == Min(Max(v, 0 - SampleMax - 1), SampleMax)

\* (input.start_ms / CHUNK_MS as f64).floor() as u64
KeyOf(start_ms) == Max(start_ms \div CHUNK_MS, 0)

\* the element i of a vector grown with zeros
At(v, i) == IF i <= Len(v) THEN v[i] ELSE 0

\* mono inputs of either rate with no sample or one extreme sample, and
\* stereo inputs
MixInputs ==
  [start_ms : {0 - 50, 0, 150}, sample_rate : {44100, 48000}, channels : {1},
   samples : UpTo({0 - SampleMax - 1, SampleMax}, 1)]
    \cup [start_ms : {0, 150}, sample_rate : {48000}, channels : {2},
          samples : {<<SampleMax, SampleMax>>}]

\* the bucket of an input after it was entered and the input accumulated;
\* exact and n record the arithmetic sums and the number of contributions
\* a mixer that emits as many samples as the latest contribution holds
MaxLenAfter_Latest(max_len, n) == n

\* if bucket.max_len < input.samples.len() { bucket.max_len = input.samples.len(); }
MaxLenAfter(max_len, n) == IF max_len < n THEN n ELSE max_len

\* history kept with a bucket: exact (the unbounded sums), n (inputs
\* accumulated), longest (length of the longest of them), emitted (chunks
\* broadcast from the bucket)
Accumulated(key, input) ==
  LET old == IF key \in DOMAIN buckets THEN buckets[key]
             ELSE [start_ms |-> key * CHUNK_MS, sample_rate |-> input.sample_rate,
                   channels |-> input.channels, sum |-> <<>>, max_len |-> 0,
                   last_update |-> now, exact |-> <<>>, n |-> 0,
                   longest |-> 0, emitted |-> 0]
      len == Max(Len(old.sum), Len(input.samples))
  IN  [old EXCEPT !.sum = [i \in 1 .. len |-> SatAdd(At(old.sum, i), At(input.samples, i))],
                  !.max_len = MaxLenAfter(old.max_len, Len(input.samples)),
                  !.last_update = now,
                  !.exact = [i \in 1 .. len |-> At(old.exact, i) + At(input.samples, i)],
                  !.n = old.n + 1,
                  !.longest = Max(old.longest, Len(input.samples))]

\* a mixer that checks the channels only
Accepts_AnyRate(key, input) == input.channels = 1

Accepts(key, input) ==
  /\ input.channels = 1
  /\ key \in DOMAIN buckets => /\ buckets[key].sample_rate = input.sample_rate
                               /\ buckets[key].channels = input.channels

\* the contributions the buckets bs have taken
RECURSIVE Contributions(_)
Contributions(bs) ==
  IF DOMAIN bs = {} THEN 0
  ELSE LET k == CHOOSE x \in DOMAIN bs : TRUE
       IN  bs[k].n + Contributions([x \in DOMAIN bs \ {k} |-> bs[x]])

MixedOf(b) ==
  [start_ms |-> b.start_ms, sample_rate |-> b.sample_rate, channels |-> b.channels,
   samples |-> [i \in 1 .. Min(b.max_len, Len(b.sum)) |-> Clamp16(b.sum[i])]]

\* buckets.retain(..) at the instant now
Pruned(bs) ==
  LET keep == { k \in DOMAIN bs : now - bs[k].last_update <= MAX_BUCKET_AGE_MS }
  IN  [k \in keep |-> bs[k]]

\* the body of the loop for the input rx.recv() returned
MixStep(input) ==
  /\ LET key == KeyOf(input.start_ms)
         b == Accumulated(key, input)
         bs == [k \in DOMAIN buckets \cup {key} |->
                  IF k = key THEN [b EXCEPT !.emitted = @ + 1] ELSE buckets[k]]
     IN  /\ Contributions(buckets) < MaxContrib
         /\ fed' = now
         /\ IF Accepts(key, input)
              THEN /\ mixed' = << MixedOf(b) >>
                   /\ IF now - last_prune > CHUNK_MS
                        THEN buckets' = Pruned(bs) /\ last_prune' = now
                        ELSE buckets' = bs /\ last_prune' = last_prune
              ELSE UNCHANGED <<buckets, mixed, last_prune>>
  /\ UNCHANGED <<now, call, downVars, sessionVars>>

MixInput == \E input \in MixInputs : MixStep(input)

\* time passes
TickMs == (MAX_BUCKET_AGE_MS + CHUNK_MS) \div 2 + 1

Tick ==
  /\ now < MaxTicks * TickMs
  /\ now' = now + TickMs
  /\ UNCHANGED <<buckets, last_prune, mixed, fed, call, downVars, sessionVars>>

MixInit == Detached("mixer") /\ InitUnits

MixNext ==
  \/ MixInput
  \/ Tick

MixSpec == MixInit /\ [][MixNext]_vars

\* ------------------------------------------------------------------------
\* Properties
\* ------------------------------------------------------------------------
\* an entry of kind T stands before position i of the transcript s
Before(s, i, T) == \E j \in 1 .. (i - 1) : s[j].t = T

Has(s, e) == \E i \in 1 .. Len(s) : s[i] = e

HasKind(s, T) == \E i \in 1 .. Len(s) : s[i].t = T

\* C1: in every session the video-config is sent before the first video
\* binary, and at most one video-config is sent in the whole session
C1_ConfigPrecedesVideo ==
  /\ Cardinality({ i \in 1 .. Len(sent) : sent[i].t = "video-config" }) <= 1
  /\ \A i \in 1 .. Len(sent) : sent[i].t = "video" => Before(sent, i, "video-config")

\* a live session has sent its config and a video binary, and the encoder
\* has since been rebuilt for another resolution
C1_Witness ==
  /\ kind = "live"
  /\ HasKind(sent, "video")
  /\ pending_config_sent
  /\ pipeline.config_b64 = <<>>

\* C2: a live session never queues a video binary while the encoder's
\* descriptor is empty
C2_NoVideoWithoutDescriptor ==
  [][ (kind = "live" /\ Len(q') = Len(q) + 1 /\ Last(q').t = "video")
        => pipeline.config_b64 # <<>> ]_vars

\* C3: in every session the mode-ack is sent before the first media binary
C3_AckPrecedesMedia ==
  \A i \in 1 .. Len(sent) :
    sent[i].t \in {"video", "audio"} => Before(sent, i, "mode-ack")

\* a session has sent both an audio and a video binary
C3_Witness == HasKind(sent, "audio") /\ HasKind(sent, "video")

\* the drainer writes a heartbeat to the socket
HeartbeatWritten == OutHeartbeat /\ outPc' = "run"

\* C4 as stated: the client receives the mode-ack before every other server
\* message (video-config, heartbeat or binary), and the video-config before
\* the binaries
C4_AckThenConfigThenBinaries ==
  [][ /\ HeartbeatWritten => "mode-ack" \in received
      /\ \A k \in received' \ received :
           /\ k \in {"video-config", "video", "audio"} => "mode-ack" \in received
           /\ k \in {"video", "audio"} => "video-config" \in received ]_vars

\* C4 amended: every media binary is delivered after the mode-ack and every
\* video binary after the video-config; a live session delivers the
\* video-config after the mode-ack, the offline player delivers it before
\* the mode-ack and before every binary; heartbeats are not ordered
C4_Amended ==
  [][ \A k \in received' \ received :
        /\ k \in {"video", "audio"} => "mode-ack" \in received
        /\ k = "video" => "video-config" \in received
        /\ (kind = "live" /\ k = "video-config") => "mode-ack" \in received
        /\ (kind = "offline" /\ k \in {"mode-ack", "audio"})
             => "video-config" \in received ]_vars

\* the client has received the control texts and both kinds of binary
C4_Witness == received = {"mode-ack", "video-config", "video", "audio"}

\* what the negotiation treats as no mode request: the timeout, the end of
\* the stream, an error, a non-text message, or a text that is not a JSON
\* object with "type":"mode" and a codec that is a string or absent
DefaultCase(m) ==
  ~(m.k = "text" /\ m.json /\ m.type = "mode"
      /\ m.codec \in {"avc", "hevc", "vp9", "absent"})

\* C5: without a parseable mode request the session selects AVC and sends
\* exactly the ack {"type":"mode-ack","mode":"video","codec":"avc"}
C5_DefaultsToAvc ==
  (kind = "live" /\ req # NotYet /\ DefaultCase(req)) =>
    /\ codec = "avc"
    /\ \/ pc = "send" /\ sent = <<>>
            /\ pend = << [m |-> ModeAck("avc"), brk |-> FALSE] >>
       \/ pc = "pipeline" /\ sent = << Tag(ModeAck("avc")) >>

\* the negotiation ended on a text that is not a mode request
C5_Witness ==
  kind = "live" /\ pc = "pipeline" /\ req.k = "text" /\ req.type # "mode" /\ req.json

\* C6: after a request for "hevc" no pipeline is built, the session sends
\* the mode-ack with reason "video-unavailable", and no video-config, video
\* binary or audio binary is ever sent
C6_HevcRejected ==
  (kind = "live" /\ codec = "hevc") =>
    /\ pipeline = NoPipeline
    /\ lrx[1] = "none"
    /\ pc \in {"send", "pipeline", "done"}
    /\ pc = "done" => sent = << Tag(ModeAck("hevc")), Tag(ModeAckUnavailable) >>
    /\ \A i \in 1 .. Len(sent) : sent[i].t \notin {"video-config", "video", "audio"}

\* the session of a client that asked for HEVC has ended
C6_Witness == kind = "live" /\ codec = "hevc" /\ pc = "done"

\* C7: when rebuilding the encoder fails, the session sends the mode-ack
\* with reason "video-unavailable" before ending
C7_RebuildErrorAcked ==
  (kind = "live" /\ pc = "done" /\ why = "rebuild_error")
    => Has(sent, Tag(ModeAckUnavailable))

\* C8: once the inbound task ended for video-unavailable or a codec error,
\* the drainer terminates without the peer having to disconnect
C8_SessionCloses ==
  (kind = "live" /\ pc = "done" /\ why \in {"unavailable", "rebuild_error", "error"})
    ~> (outPc = "done")

\* C9: once the drainer failed to write, every task of the session
\* eventually terminates
C9_Cancellation == (outPc = "done") ~> Returned

\* frames captured since listener l registered
Since(l) == nFrames - regAt[l]

\* listener l is registered, its session has received nothing, and frames
\* were captured since
Undrained(l) == lrx[l] = "open" /\ ~drained[l] /\ Since(l) >= 1

\* C10 as stated: of the N frames captured while a session does not drain
\* its queue, exactly the first is in the queue and the drop counter has
\* increased by N - 1
C10_CounterCountsDrops ==
  \A l \in Listeners :
    Undrained(l) =>
      /\ Len(lq[l]) = 1
      /\ lq[l][1].id = regAt[l] + 1
      /\ DROPPED_COUNT - countAt[l] = Since(l) - 1

\* C10 amended: exactly the first frame is in the queue, the others were
\* dropped, and the drop counter is the number of try_sends that found a
\* queue full since the last successful try_send to any listener
C10_Amended ==
  /\ \A l \in Listeners :
       Undrained(l) => Len(lq[l]) = 1 /\ lq[l][1].id = regAt[l] + 1
  /\ DROPPED_COUNT = sinceOk

\* two frames were captured while a listener did not drain, and a drop was
\* counted
C10_Witness ==
  \E l \in Listeners : Undrained(l) /\ Since(l) > 1 /\ DROPPED_COUNT >= 1

\* ------------------------------------------------------------------------
\* C11: the outbound queue never holds more than its capacity; a producer
\* that finds it full stays suspended with its message (nothing is dropped);
\* every enqueue appends at the tail, and every socket write takes the head
\* of the queue, so messages are forwarded once each, in FIFO order, until
\* the drainer ends the session (which discards what is still queued).
\* ------------------------------------------------------------------------
Enqueued == pc = "send" /\ outPc = "run" /\ pend' # pend

C11_BoundedFifo ==
  [][ /\ Len(q) <= OutboundCap /\ Len(q') <= OutboundCap
      /\ Enqueued => Len(q) < OutboundCap /\ q' = Append(q, Head(pend).m)
      /\ \/ q' = q
         \/ Enqueued /\ q' = Append(q, Head(pend).m)
         \/ q # <<>> /\ q' = Tail(q) /\ received' = Written(received, Head(q))
         \/ outPc' = "done" /\ q' = <<>> ]_vars

C11_Witness ==
  /\ Len(q) = OutboundCap
  /\ outPc = "run"
  /\ pc = "send"
  /\ pend # <<>>
  /\ \E i \in 1..Len(q) : q[i].t = "video"
  /\ "video" \in received

\* ------------------------------------------------------------------------
\* C12: video binaries reach the client in encoder output order.  The frames
\* of a live session that are still on their way (queued for the socket,
\* pending in a send, waiting in the listener queue) carry strictly
\* increasing capture numbers; an encode call emits at most the frame it
\* just took from the listener; a video written to the socket is older than
\* everything still on its way.  So the written videos are a subsequence of
\* the captured frames in capture order: drops only, no reorder, no
\* duplicate.
\* ------------------------------------------------------------------------
RECURSIVE VideoIds(_)
VideoIds(s) ==
  IF s = <<>> THEN <<>>
  ELSE IF Head(s).t = "video" THEN <<Head(s).id>> \o VideoIds(Tail(s))
  ELSE VideoIds(Tail(s))

PendMsgs(ps) == [i \in 1 .. Len(ps) |-> ps[i].m]

FrameIds(fs) == [i \in 1 .. Len(fs) |-> fs[i].id]

InFlight(queue, ps, fs) == VideoIds(queue) \o VideoIds(PendMsgs(ps)) \o FrameIds(fs)

Increasing(s) == \A i, j \in 1 .. Len(s) : i < j => s[i] < s[j]

C12_VideoInOrder ==
  [][ kind = "live" =>
        /\ Increasing(InFlight(q, pend, lq[1]))
        /\ \A i \in 1 .. Len(InFlight(q, pend, lq[1])) :
             InFlight(q, pend, lq[1])[i] \in 1 .. nFrames
        /\ (lq[1] # <<>> /\ lq'[1] = Tail(lq[1]) /\ pend' # pend) =>
             VideoIds(PendMsgs(pend')) \in { <<>>, << Head(lq[1]).id >> }
        /\ (q # <<>> /\ q' = Tail(q) /\ Head(q).t = "video") =>
             \A i \in 1 .. Len(InFlight(q', pend', lq'[1])) :
               InFlight(q', pend', lq'[1])[i] > Head(q).id ]_vars

\* one video has been written to the socket and a later one is on its way
C12_Witness ==
  /\ kind = "live"
  /\ "video" \in received
  /\ Len(VideoIds(q) \o VideoIds(PendMsgs(pend))) >= 1
  /\ nFrames >= 2

\* ------------------------------------------------------------------------
\* C13: lifecycle of the frame source.  The registration that makes the
\* listener list non-empty requests the start of the capture; a listener
\* leaves the list only at a frame delivery, which removes every listener
\* whose receiver is closed and requests the stop when none is left; the
\* capture state the control thread is heading for is "started" exactly
\* while the list is non-empty.  Once the receivers of all listed listeners
\* are closed and the source still has frames to produce, the list is
\* emptied and the capture is stopped, unless a new listener registers.
\* ------------------------------------------------------------------------
\* the capture state after the control thread has served what it was sent
Target == IF cmds = <<>> THEN started ELSE Last(cmds)

AllClosed == listeners # <<>> /\ \A i \in 1 .. Len(listeners) : lrx[listeners[i]] = "closed"

SomeOpen == \E i \in 1 .. Len(listeners) : lrx[listeners[i]] = "open"

C13_Lifecycle ==
  /\ [](Target = (listeners # <<>>))
  /\ [][ /\ (listeners = <<>> /\ listeners' # <<>>) => cmds' = Append(cmds, TRUE)
         /\ Len(listeners') < Len(listeners) =>
              /\ nFrames' = nFrames + 1
              /\ \A i \in 1 .. Len(listeners') : lrx[listeners'[i]] # "closed"
         /\ (listeners # <<>> /\ listeners' = <<>>) => cmds' = Append(cmds, FALSE) ]_vars
  /\ (AllClosed /\ nFrames < MaxFrames) ~> ((listeners = <<>> /\ ~started) \/ SomeOpen)

\* two listeners came and went, the list is empty again and the capture,
\* which had been started, is stopped
C13_Witness ==
  /\ \A l \in Listeners : lrx[l] = "closed"
  /\ listeners = <<>>
  /\ nFrames >= 1
  /\ cmds = <<>>
  /\ ~started

\* ------------------------------------------------------------------------
\* C14: every binary message of a live session is well framed.  A video
\* chunk reads as a run of (u32 big-endian length, that many bytes) with no
\* zero length and nothing left over, and it is never empty; an audio chunk,
\* from the mixer or from the capture, has the 24-byte header that starts
\* with "AUD0" and whose sample_count is the number of 16-bit samples after
\* the header.
\* ------------------------------------------------------------------------
RECURSIVE AvccFramed(_)
AvccFramed(buf) ==
  \/ buf = <<>>
  \/ /\ Len(buf) >= 4
     /\ FromU32BE(buf) > 0
     /\ Len(buf) >= 4 + FromU32BE(buf)
     /\ AvccFramed(SubSeq(buf, 5 + FromU32BE(buf), Len(buf)))

Aud0Framed(buf) ==
  /\ Len(buf) >= 24
  /\ SubSeq(buf, 1, 4) = <<65, 85, 68, 48>>
  /\ Len(buf) - 24 = 2 * FromU32LE(SubSeq(buf, 21, 24))

C14_BinaryFraming ==
  /\ (call.fn = "encode" /\ call.out # <<>>) =>
       call.out[1] # <<>> /\ AvccFramed(call.out[1])
  /\ call.fn \in {"build_audio_chunk", "build_direct_audio_chunk"} => Aud0Framed(call.out)

\* a chunk made of a bitstream of two units, of which the one that was only a
\* start code is left out
C14_Witness ==
  /\ call.fn = "encode"
  /\ Len(call.in) = 2
  /\ \E i \in 1 .. 2 : call.in[i] = <<0, 0, 0, 1>>
  /\ call.out # <<>>
  /\ Len(call.out[1]) >= 5

\* ------------------------------------------------------------------------
\* C15: AUD0 round trip.  Parsing what build_audio_chunk made of a chunk
\* gives a MixerInput with the chunk's start_ms (bit for bit), sample_rate,
\* channels and samples.
\* ------------------------------------------------------------------------
FromMixed == call.fn = "parse_audio_chunk" /\ "start_ms" \in DOMAIN call.from

C15_Aud0RoundTrip ==
  FromMixed =>
    /\ call.out # <<>>
    /\ call.out[1].start_ms = call.from.start_ms
    /\ call.out[1].sample_rate = call.from.sample_rate
    /\ call.out[1].channels = call.from.channels
    /\ call.out[1].samples = call.from.samples

\* a chunk at 1234.5 ms with the two extreme samples went through
C15_Witness ==
  /\ FromMixed
  /\ call.from.start_ms = <<0, 0, 18944, 16531>>
  /\ call.from.samples = <<-32768, 32767>>
  /\ call.out # <<>>

RECURSIVE SmallestFrom(_, _, _, _)
SmallestFrom(w, h, budget, s) ==
  IF (w \div s) * (h \div s) <= budget THEN s ELSE SmallestFrom(w, h, budget, s + 1)

C17_MinimalScale ==
  (call.fn = "downsample" /\ call.in.w * call.in.h > call.in.budget) =>
    call.out.scale = SmallestFrom(call.in.w, call.in.h, call.in.budget, 1)

\* ------------------------------------------------------------------------
\* C18: a frame within the budget comes back as the very frame that was
\* passed in, with scale 1, and the scratch buffer is as it was.
\* ------------------------------------------------------------------------
C18_Identity ==
  (call.fn = "downsample" /\ call.in.w * call.in.h <= call.in.budget) =>
    /\ call.out.shared
    /\ call.out.scale = 1
    /\ call.out.w = call.in.w /\ call.out.h = call.in.h
    /\ buffer = call.in.buffer

\* a 1920x1080 frame came back as it was, after an earlier frame had made
\* the downsampler grow its scratch buffer
C18_Witness ==
  /\ call.fn = "downsample"
  /\ call.in.w = 1920 /\ call.in.h = 1080 /\ call.in.budget = MAX_PIXELS
  /\ call.out.shared
  /\ call.in.buffer > 0
  /\ buffer = call.in.buffer

\* ------------------------------------------------------------------------
\* C19 as stated: every sample of the chunk the mixer emits is the
\* arithmetic sum of the samples contributed to its bucket at that index,
\* clamped to the i16 range.
\* ------------------------------------------------------------------------
Emitted == mixed # <<>> /\ KeyOf(mixed[1].start_ms) \in DOMAIN buckets

EmittedBucket == buckets[KeyOf(mixed[1].start_ms)]

\* v brought into the range of a sample
Clipped(v) ==
  IF v > SampleMax THEN SampleMax
  ELSE IF v < 0 - SampleMax - 1 THEN 0 - SampleMax - 1
  ELSE v

C19_Saturation ==
  Emitted =>
    \A i \in 1 .. Len(mixed[1].samples) :
      mixed[1].samples[i] = Clipped(EmittedBucket.exact[i])

\* C19 amended: every emitted sample is the bucket's saturating accumulator
\* clamped to the i16 range, so it never wraps; it is the clamped arithmetic
\* sum as long as the bucket has taken no more contributions than fit the
\* accumulator whatever their values.
C19_Amended ==
  Emitted =>
    \A i \in 1 .. Len(mixed[1].samples) :
      /\ mixed[1].samples[i] \in (0 - SampleMax - 1) .. SampleMax
      /\ mixed[1].samples[i] = Clipped(EmittedBucket.sum[i])
      /\ EmittedBucket.n * (SampleMax + 1) <= AccMax + 1 =>
           mixed[1].samples[i] = Clipped(EmittedBucket.exact[i])

\* two contributions whose sum is above the i16 range were emitted as the
\* largest sample
C19_Witness ==
  /\ Emitted
  /\ EmittedBucket.n = 2
  /\ Len(mixed[1].samples) = 1
  /\ EmittedBucket.exact[1] > SampleMax
  /\ mixed[1].samples[1] = SampleMax

\* ------------------------------------------------------------------------
\* C20: when no input has been fed to the mixer for longer than
\* MAX_BUCKET_AGE_MS + CHUNK_MS, the mixer holds no bucket.
\* ------------------------------------------------------------------------
C20_IdleMixerEmpty ==
  now - fed > MAX_BUCKET_AGE_MS + CHUNK_MS => DOMAIN buckets = {}

\* ------------------------------------------------------------------------
\* C21: mixer format invariant.  Every bucket is mono and keeps the sample
\* rate of the input that created it.  An input that is not mono, or whose
\* sample rate differs from that of its bucket, leaves every bucket as it is
\* (accumulator, max length, last_update) and nothing is broadcast for it.
\* ------------------------------------------------------------------------
Mismatched(input) ==
  \/ input.channels # 1
  \/ /\ KeyOf(input.start_ms) \in DOMAIN buckets
     /\ buckets[KeyOf(input.start_ms)].sample_rate # input.sample_rate

C21_FormatInvariant ==
  /\ [](\A k \in DOMAIN buckets : buckets[k].channels = 1)
  /\ [][ /\ \A k \in DOMAIN buckets \cap DOMAIN buckets' :
              buckets'[k].sample_rate = buckets[k].sample_rate
         /\ \/ buckets' = buckets /\ mixed' = mixed
            \/ \A input \in MixInputs : ~(Mismatched(input) /\ MixStep(input))
         /\ \A k \in DOMAIN buckets' \ DOMAIN buckets :
              \A input \in MixInputs :
                (KeyOf(input.start_ms) = k /\ ~Mismatched(input) /\ MixStep(input))
                  => buckets'[k].sample_rate = input.sample_rate ]_vars

\* the mixer holds buckets, and the input it took last, later than every
\* update of a bucket, was dropped
C21_Witness ==
  /\ DOMAIN buckets # {}
  /\ \A k \in DOMAIN buckets : buckets[k].last_update < fed
  /\ mixed # <<>>

\* ------------------------------------------------------------------------
\* C22: mixer bucketing.  Every accepted input is accumulated into exactly
\* the bucket whose key is floor(start_ms / 100): that bucket counts one
\* contribution more, no other bucket changes its accumulator, and the chunk
\* broadcast for the input carries start_ms = floor(start_ms / 100) * 100.
\* ------------------------------------------------------------------------
Floor100(start_ms) == start_ms \div CHUNK_MS

Taken(bs, k) == IF k \in DOMAIN bs THEN bs[k].n ELSE 0

C22_Bucketing ==
  [][ \A input \in MixInputs :
        (~Mismatched(input) /\ MixStep(input)) =>
           /\ Floor100(input.start_ms) \in DOMAIN buckets'
           /\ Taken(buckets', Floor100(input.start_ms))
                = Taken(buckets, Floor100(input.start_ms)) + 1
           /\ \A k \in DOMAIN buckets' \ {Floor100(input.start_ms)} :
                k \in DOMAIN buckets /\ buckets'[k].exact = buckets[k].exact
           /\ mixed' = << [start_ms |-> Floor100(input.start_ms) * CHUNK_MS,
                           sample_rate |-> input.sample_rate,
                           channels |-> 1,
                           samples |-> mixed'[1].samples] >> ]_vars

\* ------------------------------------------------------------------------
\* C30: mixer emission.  Every accepted contribution is followed by one
\* broadcast of its bucket, so a bucket that has taken k contributions has
\* been broadcast k times.  The chunk broadcast last comes from the bucket
\* updated last and shows it as it is now: the whole accumulator, clipped,
\* as long as the longest contribution the bucket has taken (shorter ones
\* count as zero beyond their end).
\* ------------------------------------------------------------------------
C30_Emission ==
  /\ \A k \in DOMAIN buckets :
       /\ buckets[k].emitted = buckets[k].n
       /\ Len(buckets[k].sum) = buckets[k].longest
  /\ mixed # <<>> =>
       /\ Len(mixed) = 1
       /\ Emitted
       /\ \A k \in DOMAIN buckets :
            buckets[k].last_update <= EmittedBucket.last_update
       /\ Len(mixed[1].samples) = EmittedBucket.longest
       /\ \A i \in 1 .. EmittedBucket.longest :
            mixed[1].samples[i] = Clipped(EmittedBucket.sum[i])

\* a bucket took a one-sample contribution and an empty one and was
\* broadcast twice, the last time with one sample
C30_Witness ==
  /\ Emitted
  /\ EmittedBucket.n = 2
  /\ EmittedBucket.emitted = 2
  /\ EmittedBucket.exact = << SampleMax >>
  /\ Len(mixed[1].samples) = 1

\* ------------------------------------------------------------------------
\* C23: offline keyframe rewriting.  The payload of a frame made of a sample
\* with the sync flag is the file's SPS units, then its PPS units, each
\* behind its four-byte big-endian length, then the bytes of the sample; the
\* payload of any other sample is exactly the bytes of the sample.
\* ------------------------------------------------------------------------
\* whether buf is the given units, each behind its length, and then rest
RECURSIVE UnitsThen(_, _, _)
UnitsThen(buf, units, rest) ==
  IF units = <<>> THEN buf = rest
  ELSE /\ Len(buf) >= 4 + Len(Head(units))
       /\ FromU32BE(buf) = Len(Head(units))
       /\ SubSeq(buf, 5, 4 + Len(Head(units))) = Head(units)
       /\ UnitsThen(SubSeq(buf, 5 + Len(Head(units)), Len(buf)), Tail(units), rest)

C23_KeyframeRewriting ==
  call.fn = "next" =>
    IF call.in.is_sync
      THEN UnitsThen(call.out.data, call.from.sps \o call.from.pps, call.in.bytes)
      ELSE call.out.data = call.in.bytes

\* a sync sample of a file with one SPS and one PPS, sent behind them
C23_Witness ==
  /\ call.fn = "next"
  /\ call.in.is_sync
  /\ call.from = [sps |-> << <<103, 66>> >>, pps |-> << <<104>> >>]
  /\ call.in.bytes = <<0, 0, 0, 1, 101>>
  /\ call.out.data = <<0, 0, 0, 2, 103, 66, 0, 0, 0, 1, 104, 0, 0, 0, 1, 101>>

\* ------------------------------------------------------------------------
\* C24: offline start.  Every video binary the player sends is a frame of
\* the file whose timestamp is not before start_time, and a keyframe whose
\* timestamp is not before start_time comes at or before it in the file: so
\* the first video binary of a pass is such a keyframe, and the frames
\* before it are skipped.
\* ------------------------------------------------------------------------
\* the video binaries the player has made and the peer has not been sent yet
PlayerVideos ==
  { m \in { q[i] : i \in 1 .. Len(q) } \cup { pend[i].m : i \in 1 .. Len(pend) } :
      m.t = "video" }

KeyAtOrAfterStart(j) == file[j] = "key" /\ TimestampMs(j, fps) >= start_time

C24_OfflineStart ==
  kind = "offline" =>
    \A m \in PlayerVideos :
      /\ m.id \in 1 .. Len(file)
      /\ file[m.id] \in {"key", "delta"}
      /\ m.idr = (file[m.id] = "key")
      /\ TimestampMs(m.id, fps) >= start_time
      /\ \E j \in 1 .. m.id : KeyAtOrAfterStart(j)

\* of a file key, delta, key played from 40 ms, the pass starts with the
\* third frame: the first is before the start, the second is no keyframe
C24_Witness ==
  /\ kind = "offline"
  /\ file = <<"key", "delta", "key">>
  /\ start_time = 40
  /\ PlayerVideos = { VideoBinary(3, TRUE) }
  /\ found_keyframe

\* ------------------------------------------------------------------------
\* C25: offline frame count.  With loop mode off, a playback that runs to
\* completion has sent one video binary for each sample from the first
\* keyframe at or after start_time through the last sample, in file order,
\* after a video-config that is sent once; then the paced player ends.
\* Stated step by step: each turn of the frame loop enqueues the video binary
\* of the next due sample and passes over no due sample, the pass ends only
\* when no due sample is left, the video-config is made only by the first
\* step of the player, and what was made is enqueued in order.
\* ------------------------------------------------------------------------
\* the samples a pass has to send
Due(j) ==
  /\ file[j] \in {"key", "delta"}
  /\ TimestampMs(j, fps) >= start_time
  /\ \E k \in 1 .. j : KeyAtOrAfterStart(k)

NoneDue(from, to) == \A j \in from .. to : j \in 1 .. Len(file) => ~Due(j)

Configs(ps) == { i \in 1 .. Len(ps) : ps[i].m.t = "video-config" }

C25_FrameCount ==
  [][ kind = "offline" =>
        /\ (pc = "iter" /\ pc' \in {"send", "sleep"}) =>
             /\ VideoIds(PendMsgs(pend')) = << idx' - 1 >>
             /\ pend'[Len(pend')].m.t = "video"
             /\ idx' - 1 \in idx .. Len(file)
             /\ Due(idx' - 1)
             /\ NoneDue(idx, idx' - 2)
        /\ (pc = "iter" /\ pc' = "iter") =>
             /\ pend' = <<>>
             /\ idx' >= idx
             /\ NoneDue(idx, idx' - 1)
        /\ (pc = "iter" /\ pc' = "done" /\ why' = "complete") =>
             /\ ~loop_playback
             /\ pend' = <<>>
             /\ NoneDue(idx, Len(file))
        /\ (pc = "iter" /\ pc' = "loop") => loop_playback
        /\ (pc = "loop" /\ pc' = "iter") => idx' = 1 /\ ~found_keyframe'
        /\ (pc # "iter" /\ pc' = "iter" /\ pc # "loop") => idx' = idx
        /\ (pc = "send" /\ pend' # pend) =>
             /\ pend' \in { Tail(pend), <<>> }
             /\ q' \in { q, Append(q, Head(pend).m) }
             /\ (pend' = <<>> /\ Len(pend) > 1) => pc' = "done" /\ why' = "transport"
        /\ Configs(pend') # {} => (Configs(pend') = {1} /\ pc \in {"config", "send"})
        /\ pc # "config" => pc' # "config" ]_vars

\* a file key, delta, key played once from its beginning, to the end
C25_Witness ==
  /\ kind = "offline"
  /\ ~loop_playback
  /\ file = <<"key", "delta", "key">>
  /\ start_time = 0
  /\ pc = "done"
  /\ why = "complete"
  /\ idx = 4
  /\ "video" \in received

\* ------------------------------------------------------------------------
\* C26: pacing.  The video binary of a frame with timestamp t is on its way
\* to the outbound channel only when the time elapsed since the start of the
\* pass has reached t - start_time; the player sleeps for a frame exactly
\* when that time has not been reached, so a frame that is late goes to the
\* channel at once, and no due frame is dropped.
\* ------------------------------------------------------------------------
\* the video binaries the player is about to enqueue
Sending == { i \in 1 .. Len(pend) : pend[i].m.t = "video" }

RelativeMs(id) == TimestampMs(id, fps) - start_time

C26_Pacing ==
  /\ [](kind = "offline" /\ pc = "send" =>
          \A i \in Sending : elapsed >= RelativeMs(pend[i].m.id))
  /\ [][ (kind = "offline" /\ pc = "iter" /\ pc' \in {"send", "sleep"}) =>
           /\ Sending' # {}
           /\ Due(idx' - 1)
           /\ pc' = "send" <=> elapsed >= RelativeMs(idx' - 1)
           /\ \A i \in Sending' : pend'[i].m.id = idx' - 1 ]_vars

\* the third frame, due 80 ms after the start of the pass, is sent 120 ms
\* after it
C26_Witness ==
  /\ kind = "offline"
  /\ start_time = 0
  /\ pc = "send"
  /\ \E i \in Sending : pend[i].m.id = 3
  /\ elapsed = 120

\* ------------------------------------------------------------------------
\* C27: force keyframe.  Once a force-keyframe text was taken, the next video
\* binary the session makes comes from an encode call that forced an IDR,
\* whatever frames were skipped or chunks withheld in between.
\* ------------------------------------------------------------------------
C27_ForceKeyframe ==
  [][ (kind = "live" /\ keyframe_asked /\ pc = "run" /\ pend' # pend) =>
        \A i \in 1 .. Len(pend') : pend'[i].m.t = "video" => pend'[i].m.idr ]_vars

\* ------------------------------------------------------------------------
\* C28: heartbeat only when idle.  The drainer writes a heartbeat only when
\* it has written no queued message since the heartbeat before it, that is
\* during the ten seconds of the interval and more; and it writes at most
\* one heartbeat for each period of the interval that elapsed.
\* ------------------------------------------------------------------------
C28_HeartbeatWhenIdle ==
  [][ (outPc = "run" /\ ticker = "ready" /\ ticker' = "waiting") => ~forwarded ]_vars

\* ------------------------------------------------------------------------
\* C29: protocol errors are ignored.  For a text that is no JSON document or
\* whose type the loop does not know, and for a binary without the AUD0
\* magic, shorter than 24 bytes or shorter than 24 + 2 * sample_count, the
\* handler forwards nothing to the mixer, produces no outbound message,
\* leaves the force-keyframe and config-sent flags as they were, and the
\* session goes on.
\* ------------------------------------------------------------------------
\* the sample_count a buffer of at least 24 bytes announces
Announced(data) ==
  data[21] + 256 * data[22] + 65536 * data[23] + 16777216 * data[24]

Malformed(m) ==
  \/ m.k = "text" /\ (~m.json \/ m.type # "force-keyframe")
  \/ /\ m.k = "binary"
     /\ \/ Len(m.data) < 24
        \/ SubSeq(m.data, 1, 4) # <<65, 85, 68, 48>>
        \/ Len(m.data) < 24 + 2 * Announced(m.data)

C29_ProtocolErrorsIgnored ==
  (call.fn = "ws_msg" /\ Malformed(call.in.m)) =>
    /\ call.out.to_mixer = <<>>
    /\ call.out.outbound = <<>>
    /\ call.out.force_idr_next = call.in.force_idr_next
    /\ call.out.pending_config_sent = call.in.pending_config_sent
    /\ call.out.continues

\* a binary that announces two samples and holds one, taken while a
\* force-keyframe request is pending
C29_Witness ==
  /\ call.fn = "ws_msg"
  /\ call.in.m.k = "binary"
  /\ Len(call.in.m.data) = 26
  /\ SubSeq(call.in.m.data, 1, 4) = <<65, 85, 68, 48>>
  /\ Announced(call.in.m.data) = 2
  /\ call.in.force_idr_next
  /\ call.out.to_mixer = <<>>
  /\ call.out.force_idr_next

\* ------------------------------------------------------------------------
\* C31: IDR policy.  A frame whose even width or height is zero is skipped
\* and leaves the encoder as it was.  Any other frame that gets as far as
\* the encoder is encoded with an IDR forced when it is the first one since
\* the pipeline was constructed or when its even dimensions differ from the
\* encoder's; when they differ the encoder takes the new dimensions and its
\* descriptor is cleared, so that afterwards it is empty or describes the
\* new dimensions.
\* ------------------------------------------------------------------------
C31_IdrPolicy ==
  call.fn = "frame" =>
    LET before == call.in.enc
        even_w == call.in.w - (call.in.w % 2)
        even_h == call.in.h - (call.in.h % 2)
        changed == before.width # even_w \/ before.height # even_h
    IN  IF even_w = 0 \/ even_h = 0
          THEN call.out.r = "none" /\ ~call.out.idr /\ pipeline = before
          ELSE call.out.r # "rebuild_error" =>
                 /\ (before = EncoderNew(before.codec) \/ changed) => call.out.idr
                 /\ changed =>
                      /\ pipeline.width = even_w
                      /\ pipeline.height = even_h
                      /\ pipeline.config_b64 \in {<<>>, Descriptor(even_w, even_h)}

\* a 4x4 frame after 2x2 frames, with no keyframe asked for: the encoder
\* held the descriptor of 2x2, and the frame is encoded as an IDR
C31_Witness ==
  /\ call.fn = "frame"
  /\ call.in.enc.width = 2
  /\ call.in.enc.config_b64 = Descriptor(2, 2)
  /\ ~call.in.enc.pending_idr
  /\ call.in.w = 4
  /\ ~call.in.force
  /\ call.out.r = "chunk"
  /\ call.out.idr
  /\ pipeline.config_b64 = <<>>

\* ------------------------------------------------------------------------
\* C36: every video binary of a live session is encoded at the width and
\* height the session's video-config announced, with the parameter sets its
\* description carries, whatever the sizes of the captured frames are.
\* ------------------------------------------------------------------------
C36_EncodedAsAnnounced ==
  call.fn = "frame" =>
    \A i \in 1 .. Len(call.out.msgs) :
      call.out.msgs[i].m.t = "video" =>
        /\ call.from # <<>>
        /\ call.from[1].w = pipeline.width
        /\ call.from[1].h = pipeline.height
        /\ call.from[1].desc = Descriptor(pipeline.width, pipeline.height)

\* ------------------------------------------------------------------------
\* C40: encoder input pixel mapping.  For every frame passed to encode, the
\* R, G, B the encoder is fed at (x, y), x < even_w and y < even_h, are the
\* R, G, B of the pixel (x, y) of the frame, also when the frame's width is
\* odd and is cropped to the even width.
\* ------------------------------------------------------------------------
\* the three bytes at (x, y) of a vector of `bytes' bytes a pixel, `width'
\* pixels a row
PixelAt(v, bytes, width, x, y) ==
  SubSeq(v, (y * width + x) * bytes + 1, (y * width + x) * bytes + 3)

C40_PixelMapping ==
  call.fn = "rgba_to_yuv420" =>
    \A x \in 0 .. call.out.width - 1, y \in 0 .. call.out.height - 1 :
      PixelAt(call.out.rgb, 3, call.out.width, x, y)
        = PixelAt(call.in.raw, 4, call.in.w, x, y)

\* ------------------------------------------------------------------------
\* C37: a live session sends at most one mode-ack text, whatever the client
\* sends.
\* As amended: a live session sends at most one mode-ack that carries a
\* codec, and at most one that carries the reason video-unavailable; the
\* latter is sent only after the former and only when no pipeline could be
\* constructed.  Once chosen, the codec does not change, and nothing the
\* client sends afterwards makes the session send another mode-ack.
\* ------------------------------------------------------------------------
\* the mode-acks handed to tx.send so far
ModeAcks == SelectSeq(sent, LAMBDA e : e.t = "mode-ack")

C37_OneModeAck == kind = "live" => Len(ModeAcks) <= 1

C37_Amended ==
  /\ [](kind = "live" =>
          /\ Len(ModeAcks) <= 2
          /\ Len(ModeAcks) >= 1 => ModeAcks[1] = Tag(ModeAck(codec))
          /\ Len(ModeAcks) = 2 =>
               ModeAcks[2] = Tag(ModeAckUnavailable) /\ pipeline = NoPipeline)
  /\ [][ kind = "live" =>
           /\ codec # "none" => codec' = codec
           /\ pc = "run" => \A i \in 1 .. Len(pend') : pend'[i].m.t # "mode-ack" ]_vars

\* a session that has negotiated AVC and is streaming video, with the client
\* still connected
C37_Witness ==
  /\ kind = "live"
  /\ pc = "run"
  /\ sock = "open"
  /\ codec = "avc"
  /\ Len(ModeAcks) = 1
  /\ \E i \in 1 .. Len(sent) : sent[i].t = "video"

\* ------------------------------------------------------------------------
\* C35: the commands sent to the capture control thread alternate, start
\* first, under every interleaving of registrations, frame deliveries and
\* listener removals: no two commands next to each other in the channel are
\* the same, the oldest one waiting differs from the one the control thread
\* served last (none served counts as stop), and the newest one is start
\* exactly if the listener list is non-empty.  So once the channel is
\* drained, the capture is running if and only if there is a listener.
\* ------------------------------------------------------------------------
C35_CommandsAlternate ==
  /\ \A i \in 1 .. Len(cmds) - 1 : cmds[i] # cmds[i + 1]
  /\ cmds # <<>> => cmds[1] # started
  /\ cmds # <<>> => cmds[Len(cmds)] = (listeners # <<>>)
  /\ cmds = <<>> => started = (listeners # <<>>)

\* the capture runs for a first listener that has gone since; a stop and
\* the start for a second listener are waiting in the channel
C35_Witness ==
  /\ started
  /\ cmds = <<FALSE, TRUE>>
  /\ Len(listeners) = 1
  /\ \E l \in Listeners : lrx[l] = "closed"

\* ------------------------------------------------------------------------
\* C38: sessions are independent at the frame source.  At every delivery
\* there is one frame, the one just captured, such that each listed
\* listener whose receiver is open and whose queue has room gets it
\* appended to its queue, whatever the state of the other listeners is, and
\* the queue of every other listener is left as it was: a frame is withheld
\* from a listener only because its own queue is full or its own receiver
\* is closed.
\* ------------------------------------------------------------------------
Listed(l) == \E i \in 1 .. Len(listeners) : listeners[i] = l

C38_Independent ==
  [][ nFrames' # nFrames =>
        \E d \in FrameDims :
          LET frame == [id |-> nFrames', w |-> d[1], h |-> d[2]]
          IN  \A l \in Listeners :
                IF Listed(l) /\ lrx[l] # "closed" /\ Len(lq[l]) < LISTENER_CAPACITY
                  THEN lq'[l] = Append(lq[l], frame)
                  ELSE lq'[l] = lq[l] ]_vars

\* the second frame finds the queue of the first listener still full and
\* goes to the second listener, listed behind it
C38_Witness ==
  /\ listeners = <<1, 2>>
  /\ nFrames = 2
  /\ lq[1] # <<>> /\ lq[1][1].id = 1
  /\ lq[2] # <<>> /\ lq[2][1].id = 2

\* ------------------------------------------------------------------------
\* C34: the frame iterator.  A sample is yielded with an index above that
\* of the sample yielded before it and with the timestamp
\* (index - 1) / frame_rate; the samples passed over to reach it are holes;
\* and once the iterator has yielded a read error, a further call of next
\* yields nothing more.
\* ------------------------------------------------------------------------
C34_Iterator ==
  call.fn = "next" =>
    /\ call.out.r = "frame" =>
         /\ call.out.index > call.from.last
         /\ call.out.index >= call.in
         /\ file[call.out.index] \in {"key", "delta"}
         /\ call.out.key = (file[call.out.index] = "key")
         /\ call.out.timestamp = ((call.out.index - 1) * 1000) \div fps
         /\ \A j \in call.in .. call.out.index - 1 : file[j] = "hole"
    /\ call.from.erred => call.out.r = "end"

\* ------------------------------------------------------------------------
\* C32: offline audio interleaving.  What the player queues for a frame it
\* sends is the AUD0 chunks of the window from last_audio_time to the
\* frame's timestamp and then, last, the frame's video binary.  The chunks
\* are non-empty, follow each other in increasing sample position, hold at
\* most floor(sample_rate * channels * 0.04) samples each, start at the
\* window's first sample and reach no further than the sample of the
\* frame's timestamp; there is at least one of them whenever the window
\* holds a decoded sample, and none when the file has no audio.
\* ------------------------------------------------------------------------
\* the messages queued for one frame, and the AUD0 chunks among them
Queued(ps) == [i \in 1 .. Len(ps) |-> ps[i].m]

Chunks(ps) == SubSeq(Queued(ps), 1, Len(ps) - 1)

C32_AudioInterleaving ==
  [][ (kind = "offline" /\ pc = "iter" /\ pend' # pend) =>
        LET video == pend'[Len(pend')].m
            chunks == Chunks(pend')
            from == (last_audio_time * audio.sample_rate * audio.channels) \div 1000
            to == ((((video.id - 1) * 1000) \div fps) * audio.sample_rate * audio.channels)
                    \div 1000
            most == (audio.sample_rate * audio.channels * 40) \div 1000
        IN  /\ video.t = "video"
            /\ \A i \in 1 .. Len(chunks) :
                 /\ chunks[i].t = "audio"
                 /\ chunks[i].lo < chunks[i].hi
                 /\ chunks[i].hi - chunks[i].lo <= most
                 /\ chunks[i].lo >= from
                 /\ chunks[i].hi <= to
                 /\ i > 1 => chunks[i].lo > chunks[i - 1].lo
            /\ (audio.present /\ from < to /\ from < audio.len) <=> chunks # <<>>
            /\ chunks # <<>> => chunks[1].lo = from ]_vars

\* a frame behind a hole: its window is 80 ms long and is queued as two
\* chunks, the second one cut at the end of the decoded audio, then the frame
C32_Witness ==
  /\ kind = "offline"
  /\ Len(pend) = 3
  /\ pend[1].m = AudioBinary(0, 3840)
  /\ pend[2].m = AudioBinary(3840, 5000)
  /\ pend[3].m.t = "video"
  /\ pend[3].m.id = 3

\* ------------------------------------------------------------------------
\* C39: within one pass of the offline player the sample ranges of the AUD0
\* messages are contiguous and disjoint.  last_audio_time is start_time
\* until a frame is sent and the timestamp of the last frame sent from then
\* on; the first chunk queued for a frame starts at the sample of
\* last_audio_time, each next one starts exactly where the one before it
\* ended, and the last one ends at the sample of the frame's timestamp or
\* at the end of the decoded audio, after which last_audio_time is the
\* frame's timestamp: so the window of a frame starts where the window of
\* the frame sent before it ended, and no sample is sent twice or left out.
\* ------------------------------------------------------------------------
C39_AudioContiguous ==
  /\ []((kind = "offline" /\ audio.present
           /\ (pc = "iter" \/ (pc \in {"sleep", "send"} /\ after = "iter"))) =>
          last_audio_time = IF found_keyframe
                              THEN ((idx - 2) * 1000) \div fps
                              ELSE start_time)
  /\ [][ (kind = "offline" /\ audio.present /\ pc = "iter" /\ pend' # pend) =>
           LET ranges == SelectSeq(Queued(pend'), LAMBDA m : m.t = "audio")
               rate == audio.sample_rate * audio.channels
               first == (last_audio_time * rate) \div 1000
               past == (last_audio_time' * rate) \div 1000
           IN  /\ last_audio_time' = ((pend'[Len(pend')].m.id - 1) * 1000) \div fps
               /\ ranges # <<>> =>
                    /\ ranges[1].lo = first
                    /\ ranges[Len(ranges)].hi = Min(past, audio.len)
               /\ \A i \in 1 .. Len(ranges) - 1 : ranges[i + 1].lo = ranges[i].hi
               /\ ranges = <<>> => (first >= past \/ first >= audio.len) ]_vars

\* the second frame sent in a pass that started at 40 ms: its window starts
\* at sample 7680, where the window of the first frame sent ended
C39_Witness ==
  /\ kind = "offline"
  /\ start_time = 40
  /\ audio.present
  /\ found_keyframe
  /\ last_audio_time = 80
  /\ pend # <<>>
  /\ pend[Len(pend)].m.t = "video"
  /\ pend[Len(pend)].m.id = 3

\* ------------------------------------------------------------------------
\* C33: the offline loop.  When the iterator is exhausted the player goes
\* back to the head of the loop if loop mode is on, and ends as complete if
\* it is off.  Every pass starts with a fresh iterator at sample 1, the
\* pacing clock at zero, last_audio_time at start_time and the keyframe
\* search reset.  The video-config and the mode-ack are sent once, before
\* the first pass, and never again.  With loop mode on the player never
\* ends as complete: it ends only when the container cannot be read or the
\* outbound channel is closed.
\* ------------------------------------------------------------------------
C33_Loop ==
  /\ [](kind = "offline" =>
          /\ Count(sent, Tag(FileConfig)) <= 1
          /\ Count(sent, Tag(ModeAck("avc"))) <= 1
          /\ loop_playback => why # "complete"
          /\ (pc = "done" /\ ~loop_playback) => why \in {"complete", "container", "transport"})
  /\ [][ kind = "offline" =>
           /\ (pc = "iter" /\ pc' # "iter" /\ IterNext(file, idx).r = "end") =>
                IF loop_playback
                  THEN pc' = "loop" /\ why' = why
                  ELSE pc' = "done" /\ why' = "complete"
           /\ (pc # "loop" /\ pc' = "loop") =>
                \/ pc = "iter" /\ loop_playback /\ IterNext(file, idx).r = "end"
                \/ pc = "send" /\ after = "loop" /\ Len(pend) = 1
           /\ (pc = "loop" /\ pc' # "loop") =>
                \/ pc' = "done" /\ why' = "container"
                \/ /\ pc' = "iter"
                   /\ idx' = 1
                   /\ elapsed' = 0
                   /\ last_audio_time' = start_time
                   /\ ~found_keyframe'
           /\ pc \in {"iter", "sleep"} =>
                \A i \in 1 .. Len(pend') : pend'[i].m.t \in {"audio", "video"} ]_vars

\* a second pass begins: video has been sent, and the iterator, the clock,
\* the audio position and the keyframe search are back at their start
C33_Witness ==
  /\ kind = "offline"
  /\ loop_playback
  /\ pc = "iter"
  /\ idx = 1
  /\ elapsed = 0
  /\ ~found_keyframe
  /\ last_audio_time = start_time
  /\ \E i \in 1 .. Len(sent) : sent[i].t = "video"

====
